---- MODULE Spec2Model ----
(***************************************************************************)
(* Authorization pipeline of openclaw-feishu: identity registry, permission *)
(* gatekeeper, pending permission requests, approval hook and audit log.    *)
(*                                                                          *)
(* A message text is a sequence of tokens.  A user name is a sequence of    *)
(* tokens as well (the text captured after the claim prefix).               *)
(***************************************************************************)
EXTENDS Integers, Sequences, FiniteSets, TLC

VARIABLES
  identityMap,      \* CentralAuthManager.identityMap: NoRegistry or a registry
  pendingRequests,  \* CentralAuthManager.pendingRequests: requestId -> request
  nextId,           \* number of request ids generated so far
  inflight,         \* handleIncomingMessage calls suspended at their await
  last,             \* outcome of the most recently returned call
  resolved,         \* request ids for which an approval call returned success
  auditLog,         \* records appended by AuditLogger.log, oldest first
  logger,           \* the AuditLogger: NoLogger or its currentDate and currentFilePath
  fw,               \* the FileWatcher with the timers and watchers of its runtime
  cfg,              \* the OpenClawConfig the provisioning caller holds
  probe,            \* the most recent call of a probed function and its result
  authConfig        \* CentralAuthManager.config: the settings the manager was built with

vars == <<identityMap, pendingRequests, nextId, inflight, last, resolved, auditLog, logger,
         fw, cfg, probe, authConfig>>

----------------------------------------------------------------------------
(* Bounds *)

MaxRequests == 1      \* request ids generated in one run of Spec
MaxConcRequests == 3  \* request ids generated in one run of SpecConc
MaxCalls == 2         \* handleIncomingMessage calls suspended at the same time
MaxUsers == 2         \* entries of a registry in SpecRegistry
MaxEvents == 3        \* lines the log directory holds in a run of SpecAudit
MaxDay == 2           \* calendar days a run of SpecAudit spans, counted from 1
MaxLines == 2         \* lines of a log directory in SpecAuditQuery
MaxBurst == 2         \* change notifications of one path without a callback in between
MaxDebounce == 2      \* the largest debounceMs, in units of time
MaxAgents == 1        \* the largest ceiling of feishu agents
MaxTokens == 2        \* the longest text classified, in words

----------------------------------------------------------------------------
(* Identity registry (identity.ts) *)

\* identityMap is null (loaded = FALSE) or a parsed document whose
\* verified_users mapping is kept in insertion order: a sequence of entries
\* [id, user] with pairwise distinct ids.  pending_verifications is the list
\* of PendingVerification records of the document.
NoRegistry == [loaded |-> FALSE, verified_users |-> <<>>, pending_verifications |-> <<>>]
Registry(users) == [loaded |-> TRUE, verified_users |-> users, pending_verifications |-> <<>>]
NoUser == [name |-> <<>>, level |-> "none", status |-> "none"]
NoClaim == <<>>

Ids == {"ou_A", "ou_B", "ou_M"}
Levels == {"L0", "L1", "L2", "L3"}
Statuses == {"active", "inactive"}

Ada == <<"Ada">>
BigA == <<"BigA">>
Bob == <<"Bob">>

Entry(id, name, level, status) ==
  [id |-> id, user |-> [name |-> name, level |-> level, status |-> status]]

HasKey(registry, openId) ==
  \E i \in 1..Len(registry.verified_users) : registry.verified_users[i].id = openId

\* identityMap.verified_users[openId]
Lookup(registry, openId) ==
  IF HasKey(registry, openId)
  THEN registry.verified_users[CHOOSE i \in 1..Len(registry.verified_users) :
                                  registry.verified_users[i].id = openId].user
  ELSE NoUser

RegAdmin == Registry(<<Entry("ou_M", BigA, "L1", "active"), Entry("ou_A", Ada, "L2", "active")>>)
RegDeact == Registry(<<Entry("ou_M", BigA, "L1", "active"), Entry("ou_A", Ada, "L3", "active"),
                       Entry("ou_B", Bob, "L2", "inactive")>>)

\* Two active users carry the administrator's name; the L2 one comes first.
RegDup == Registry(<<Entry("ou_B", BigA, "L2", "active"), Entry("ou_M", BigA, "L1", "active")>>)

\* The same two names, the administrator listed first.
RegShared == Registry(<<Entry("ou_M", BigA, "L1", "active"), Entry("ou_A", BigA, "L3", "active")>>)

\* What the backing file can hold when it is read.
FileContents ==
  {[state |-> "missing", doc |-> NoRegistry], [state |-> "malformed", doc |-> NoRegistry],
   [state |-> "ok", doc |-> RegAdmin], [state |-> "ok", doc |-> RegDeact],
   [state |-> "ok", doc |-> RegDup], [state |-> "ok", doc |-> RegShared]}

loadIdentityMap(file) ==
  IF file.state = "missing" THEN NoRegistry
  ELSE IF file.state = "malformed" THEN NoRegistry
  ELSE file.doc

getUserLevel_ignoresStatus(registry, openId) ==
  IF registry = NoRegistry THEN "L0"
  ELSE IF ~HasKey(registry, openId) THEN "L0"
  ELSE Lookup(registry, openId).level

getUserLevel(registry, openId) ==
  IF registry = NoRegistry THEN "L0"
  ELSE LET user == Lookup(registry, openId)
       IN IF user = NoUser \/ user.status # "active" THEN "L0" ELSE user.level

getUserInfo(registry, openId) ==
  IF registry = NoRegistry THEN NoUser ELSE Lookup(registry, openId)

isNewUser(registry, openId) ==
  IF registry = NoRegistry THEN TRUE ELSE Lookup(registry, openId) = NoUser

\* The prefixes wo-shi, wo-jiao and wo-de-mingzi-shi of the three patterns.
ClaimPrefixes == {"woshi", "wojiao", "wodemingzishi"}

\* The three patterns are anchored at the start of the trimmed text and
\* capture the non-empty rest.
extractIdentityClaim(message) ==
  IF Len(message) >= 2 /\ message[1] \in ClaimPrefixes
  THEN SubSeq(message, 2, Len(message))
  ELSE NoClaim

\* Object.entries(...).find(...): the first entry in insertion order with the
\* claimed name and status active; 0 when there is none.
FindByName(registry, claimedName) ==
  LET hits == {i \in 1..Len(registry.verified_users) :
                 /\ registry.verified_users[i].user.name = claimedName
                 /\ registry.verified_users[i].user.status = "active"}
  IN IF hits = {} THEN 0 ELSE CHOOSE i \in hits : \A j \in hits : i <= j

\* handleIdentityClaim without the refusal for L1 names.
handleIdentityClaim_noAdminGuard(registry, openId, claimedName) ==
  LET existingUser == Lookup(registry, openId)
      n == FindByName(registry, claimedName)
      existing == registry.verified_users[n].user
  IN IF existingUser # NoUser
     THEN [isNewClaim |-> FALSE, autoConfirmed |-> TRUE, existingUser |-> existingUser,
           message |-> [kind |-> "confirmed", name |-> existingUser.name]]
     ELSE IF n # 0
     THEN [isNewClaim |-> TRUE, autoConfirmed |-> TRUE, existingUser |-> existing,
           message |-> [kind |-> "id_change_detected", name |-> claimedName]]
     ELSE [isNewClaim |-> TRUE, autoConfirmed |-> FALSE, existingUser |-> NoUser,
           message |-> [kind |-> "not_registered", name |-> <<>>]]

\* handleIdentityClaim with the test of the L1 refusal inverted.
handleIdentityClaim_invertedGuard(registry, openId, claimedName) ==
  LET existingUser == Lookup(registry, openId)
      n == FindByName(registry, claimedName)
      existing == registry.verified_users[n].user
  IN IF existingUser # NoUser
     THEN [isNewClaim |-> FALSE, autoConfirmed |-> TRUE, existingUser |-> existingUser,
           message |-> [kind |-> "confirmed", name |-> existingUser.name]]
     ELSE IF n # 0
     THEN IF existing.level # "L1"
          THEN [isNewClaim |-> TRUE, autoConfirmed |-> FALSE, existingUser |-> NoUser,
                message |-> [kind |-> "wait_for_admin", name |-> claimedName]]
          ELSE [isNewClaim |-> TRUE, autoConfirmed |-> TRUE, existingUser |-> existing,
                message |-> [kind |-> "id_change_detected", name |-> claimedName]]
     ELSE [isNewClaim |-> TRUE, autoConfirmed |-> FALSE, existingUser |-> NoUser,
           message |-> [kind |-> "not_registered", name |-> <<>>]]

handleIdentityClaim(registry, openId, claimedName) ==
  LET existingUser == Lookup(registry, openId)
      n == FindByName(registry, claimedName)
      existing == registry.verified_users[n].user
  IN IF existingUser # NoUser
     THEN [isNewClaim |-> FALSE, autoConfirmed |-> TRUE, existingUser |-> existingUser,
           message |-> [kind |-> "confirmed", name |-> existingUser.name]]
     ELSE IF n # 0
     THEN IF existing.level = "L1"
          THEN [isNewClaim |-> TRUE, autoConfirmed |-> FALSE, existingUser |-> NoUser,
                message |-> [kind |-> "wait_for_admin", name |-> claimedName]]
          ELSE [isNewClaim |-> TRUE, autoConfirmed |-> TRUE, existingUser |-> existing,
                message |-> [kind |-> "id_change_detected", name |-> claimedName]]
     ELSE [isNewClaim |-> TRUE, autoConfirmed |-> FALSE, existingUser |-> NoUser,
           message |-> [kind |-> "not_registered", name |-> <<>>]]

\* shortenOpenId and the name fetched from the chat platform, as tagged values
shortenOpenId(openId) == <<"short", openId>>
ApiName(openId) == <<"api", openId>>

\* The synchronous part of getUserDisplayName: the registry name when there
\* is one, else <<>> (the caller then awaits the platform lookup).
RegistryName(registry, openId) ==
  IF registry = NoRegistry THEN <<>> ELSE Lookup(registry, openId).name

----------------------------------------------------------------------------
(* Gatekeeper (gatekeeper.ts) *)

Operations == {"query", "read_file", "write_file", "git", "docker", "system",
               "send_message", "modify_rules"}

\* The matrix with read_file open to L0.
PERMISSION_MATRIX_openRead ==
  [op \in {"query", "read_file", "write_file", "git", "docker", "system",
           "send_message", "modify_rules"} |->
     [lv \in {"L0", "L1", "L2", "L3"} |->
        IF op \in {"query", "read_file"} THEN TRUE ELSE lv = "L1"]]

PERMISSION_MATRIX ==
  [op \in Operations |->
     [lv \in Levels |->
        IF op = "query" THEN TRUE
        ELSE IF op = "read_file" THEN lv \in {"L1", "L2"}
        ELSE lv = "L1"]]

\* checkPermission that denies a department resource outside the caller's
\* own department.
checkPermission_deptRestricts(level, operation, isDepartmentResource, isOwnDepartment) ==
  IF isDepartmentResource /\ ~isOwnDepartment THEN FALSE
  ELSE IF level = "L3" /\ operation = "read_file" /\ isOwnDepartment THEN TRUE
  ELSE IF level = "L2" /\ operation = "modify_rules" /\ isOwnDepartment THEN TRUE
  ELSE IF level = "L2" /\ operation = "write_file" /\ isOwnDepartment THEN TRUE
  ELSE PERMISSION_MATRIX[operation][level]

\* checkPermission whose overrides test isDepartmentResource.
checkPermission_resourceFlag(level, operation, isDepartmentResource, isOwnDepartment) ==
  IF level = "L3" /\ operation = "read_file" /\ isDepartmentResource THEN TRUE
  ELSE IF level = "L2" /\ operation = "modify_rules" /\ isDepartmentResource THEN TRUE
  ELSE IF level = "L2" /\ operation = "write_file" /\ isDepartmentResource THEN TRUE
  ELSE PERMISSION_MATRIX[operation][level]

checkPermission(level, operation, isDepartmentResource, isOwnDepartment) ==
  IF level = "L3" /\ operation = "read_file" /\ isOwnDepartment THEN TRUE
  ELSE IF level = "L2" /\ operation = "modify_rules" /\ isOwnDepartment THEN TRUE
  ELSE IF level = "L2" /\ operation = "write_file" /\ isOwnDepartment THEN TRUE
  ELSE PERMISSION_MATRIX[operation][level]

isSensitiveOperation(operation) ==
  operation \in {"git", "docker", "system", "modify_rules", "send_message"}

getPermissionDeniedMessage(level, operation) ==
  IF level = "L0" THEN [kind |-> "denied_register_first", name |-> <<>>]
  ELSE IF operation = "modify_rules" /\ level = "L2"
  THEN [kind |-> "denied_other_department", name |-> <<>>]
  ELSE IF operation \in {"git", "docker", "system"}
  THEN [kind |-> "denied_highest_privilege", name |-> <<>>]
  ELSE [kind |-> "denied_out_of_scope", name |-> <<>>]

\* Keywords of each rule.  The rules whose keywords are CJK only match when the
\* keyword is flanked by word characters; one token stands for such a text.
Keywords(rule) ==
  IF rule = "git" THEN {"git", "push", "pull", "commit", "clone", "checkout"}
  ELSE IF rule = "docker" THEN {"docker", "container", "image", "compose"}
  ELSE IF rule = "system" THEN {"rm", "mv", "cp", "chmod", "chown", "sudo", "apt", "yum", "systemctl"}
  ELSE IF rule = "modify_rules" THEN {"rule"}
  ELSE IF rule = "send_message" THEN {"email"}
  ELSE IF rule = "write_file" THEN {"x_xieru_wenjian_x"}
  ELSE IF rule = "read_file" THEN {"x_duqu_wenjian_x"}
  ELSE {}

RuleOrder == <<"git", "docker", "system", "modify_rules", "send_message", "write_file", "read_file">>

RuleMatches(rule, message) == \E i \in 1..Len(message) : message[i] \in Keywords(rule)

\* The rules tried from the last to the first.
detectOperationType_lastRuleWins(message) ==
  LET hits == {k \in 1..Len(RuleOrder) : RuleMatches(RuleOrder[k], message)}
  IN IF hits = {} THEN "query"
     ELSE RuleOrder[CHOOSE k \in hits : \A j \in hits : k >= j]

detectOperationType(message) ==
  LET hits == {k \in 1..Len(RuleOrder) : RuleMatches(RuleOrder[k], message)}
  IN IF hits = {} THEN "query"
     ELSE RuleOrder[CHOOSE k \in hits : \A j \in hits : k <= j]

----------------------------------------------------------------------------
(* Audit log (audit-log.ts, AuditLogger) *)

\* No AuditLogger has been constructed.
NoLogger == [currentDate |-> 0, currentFilePath |-> <<>>]

\* path.join(logDir, today + ".jsonl")
PartitionPath(day) == <<"logDir", day>>

\* updateCurrentFile: the partition follows the calendar day.
updateCurrentFile(lg, today) ==
  IF today # lg.currentDate
  THEN [currentDate |-> today, currentFilePath |-> PartitionPath(today)]
  ELSE lg

\* The events passed to log: the fields the caller supplies.  Two identities
\* share the display name Ada.
AuditEventTypes == {"permission_request", "permission_denied"}
AuditInputs ==
  {[eventType |-> "permission_request", userId |-> "ou_A", userName |-> "Ada", success |-> TRUE],
   [eventType |-> "permission_denied", userId |-> "ou_A", userName |-> "Ada", success |-> FALSE],
   [eventType |-> "permission_request", userId |-> "ou_B", userName |-> "Ada", success |-> TRUE],
   [eventType |-> "permission_denied", userId |-> "ou_B", userName |-> "Bob", success |-> FALSE]}

\* The state after new AuditLogger(config) on an empty log directory on day 1.
NewLogger == updateCurrentFile(NoLogger, 1)

\* The partition files of the log directory: every file holds the lines that
\* name it, in the order they were appended.
Partitions(log) == {log[i].file : i \in 1..Len(log)}
ReadLines(log, file) == SelectSeq(log, LAMBDA line : line.file = file)

\* stats.mtime of a partition, in days: a partition is appended to on its own
\* calendar day only, so it was last modified on the day of its name.
Mtime(file) == file[2]

\* config.maxDays as passed to the constructor: absent, or a number.
NoMaxDays == [set |-> FALSE, value |-> 0]
MaxDaysOf(n) == [set |-> TRUE, value |-> n]

\* The default of maxDays, in the constructor and again in cleanOldLogs.
DefaultMaxDays == 30

\* cleanOldLogs with the sweep taking every file whose age has reached maxDays.
cleanOldLogs_atAge(log, maxDays, now) ==
  LET maxAge == IF maxDays = 0 THEN DefaultMaxDays ELSE maxDays
  IN SelectSeq(log, LAMBDA line : ~(now - Mtime(line.file) >= maxAge))

\* cleanOldLogs: maxAgeMs = (maxDays || 30) days, so a maxDays of 0 counts as
\* 30; every file whose mtime is more than maxAgeMs ago is unlinked.  The
\* result is what the directory holds afterwards.
cleanOldLogs(log, maxDays, now) ==
  LET maxAge == IF maxDays = 0 THEN DefaultMaxDays ELSE maxDays
  IN SelectSeq(log, LAMBDA line : ~(now - Mtime(line.file) > maxAge))

\* new AuditLogger(config) on day today: the configuration is the defaults
\* overridden by config, the current partition is computed, then the sweep
\* runs.  A process start may follow an earlier one.
AuditLoggerNew(config, today) ==
  /\ \A file \in Partitions(auditLog) : Mtime(file) <= today
  /\ logger.currentDate <= today
  /\ LET maxDays == IF config.set THEN config.value ELSE DefaultMaxDays
         kept == cleanOldLogs(auditLog, maxDays, today)
     IN /\ logger' = updateCurrentFile(NoLogger, today)
        /\ auditLog' = kept
        /\ probe' = [fn |-> "new", config |-> config, today |-> today,
                     removed |-> Partitions(auditLog) \ Partitions(kept)]
  /\ UNCHANGED <<identityMap, pendingRequests, nextId, inflight, last, resolved, fw, cfg, authConfig>>

\* AuditLogger.log with the record appended to the partition computed by the
\* previous call.
AuditLoggerLog_stalePartition(event, timestamp, today, writeOk) ==
  /\ logger # NoLogger
  /\ Len(auditLog) < MaxEvents
  /\ logger.currentDate <= timestamp /\ timestamp <= today
  /\ LET auditEvent == event @@ [id |-> Len(auditLog) + 1, timestamp |-> timestamp]
     IN /\ logger' = logger
        /\ IF writeOk
           THEN /\ auditLog' = Append(auditLog, auditEvent @@ [file |-> logger.currentFilePath])
                /\ probe' = [fn |-> "log", threw |-> FALSE, event |-> event,
                             was |-> logger.currentDate, today |-> today,
                             result |-> auditEvent]
           ELSE /\ auditLog' = auditLog
                /\ probe' = [fn |-> "log", threw |-> TRUE, event |-> event,
                             was |-> logger.currentDate, today |-> today]
  /\ UNCHANGED <<identityMap, pendingRequests, nextId, inflight, last, resolved, fw, cfg, authConfig>>

\* AuditLogger.log with the record written in front of the partition.
AuditLoggerLog_prepends(event, timestamp, today, writeOk) ==
  /\ logger # NoLogger
  /\ Len(auditLog) < MaxEvents
  /\ logger.currentDate <= timestamp /\ timestamp <= today
  /\ LET auditEvent == event @@ [id |-> Len(auditLog) + 1, timestamp |-> timestamp]
         current == updateCurrentFile(logger, today)
     IN /\ logger' = current
        /\ IF writeOk
           THEN /\ auditLog' = <<auditEvent @@ [file |-> current.currentFilePath]>> \o auditLog
                /\ probe' = [fn |-> "log", threw |-> FALSE, event |-> event,
                             was |-> logger.currentDate, today |-> today,
                             result |-> auditEvent]
           ELSE /\ auditLog' = auditLog
                /\ probe' = [fn |-> "log", threw |-> TRUE, event |-> event,
                             was |-> logger.currentDate, today |-> today]
  /\ UNCHANGED <<identityMap, pendingRequests, nextId, inflight, last, resolved, fw, cfg, authConfig>>

\* AuditLogger.log(event).  The event gets a fresh id and the timestamp of the
\* clock, then the partition is recomputed from a second reading of the clock
\* and the record is appended to it.  appendFileSync is not guarded: when it
\* fails the exception leaves log.  Days never run backwards.
AuditLoggerLog(event, timestamp, today, writeOk) ==
  /\ logger # NoLogger
  /\ Len(auditLog) < MaxEvents
  /\ logger.currentDate <= timestamp /\ timestamp <= today
  /\ LET auditEvent == event @@ [id |-> Len(auditLog) + 1, timestamp |-> timestamp]
         current == updateCurrentFile(logger, today)
     IN /\ logger' = current
        /\ IF writeOk
           THEN /\ auditLog' = Append(auditLog, auditEvent @@ [file |-> current.currentFilePath])
                /\ probe' = [fn |-> "log", threw |-> FALSE, event |-> event,
                             was |-> logger.currentDate, today |-> today,
                             result |-> auditEvent]
           ELSE /\ auditLog' = auditLog
                /\ probe' = [fn |-> "log", threw |-> TRUE, event |-> event,
                             was |-> logger.currentDate, today |-> today]
  /\ UNCHANGED <<identityMap, pendingRequests, nextId, inflight, last, resolved, fw, cfg, authConfig>>

\* The default of query's limit, and the limit getStats passes.
DefaultLimit == 100
StatsLimit == 10000

\* fs.readdirSync(logDir).filter(.jsonl).sort(): the file names are dates, so
\* their lexicographic order is the order of their days.
RECURSIVE SortFiles(_)
SortFiles(files) ==
  IF files = {} THEN <<>>
  ELSE LET first == CHOOSE f \in files : \A g \in files : f[2] <= g[2]
       IN <<first>> \o SortFiles(files \ {first})

\* The files in the order in which their first lines were appended.
RECURSIVE FilesAsListed(_)
FilesAsListed(log) ==
  IF log = <<>> THEN <<>>
  ELSE <<log[1].file>> \o
       FilesAsListed(SelectSeq(Tail(log), LAMBDA line : line.file # log[1].file))

\* JSON.parse of a line: the event without the place it is stored at.
ParseLine(line) == [k \in DOMAIN line \ {"file"} |-> line[k]]

\* An option of query is supplied when the options object has the key.
\* The four filters of query, each applied only when its option is truthy: a
\* date always is, a string is unless it is empty.
Matches(event, options) ==
  /\ "startDate" \in DOMAIN options => ~(event.timestamp < options.startDate)
  /\ "endDate" \in DOMAIN options => ~(event.timestamp > options.endDate)
  /\ ("userId" \in DOMAIN options /\ options.userId # "") => event.userId = options.userId
  /\ ("eventType" \in DOMAIN options /\ options.eventType # "")
       => event.eventType = options.eventType

\* The inner loop of query over the lines of one file.
RECURSIVE queryLines(_, _, _, _)
queryLines(lines, options, limit, results) ==
  IF lines = <<>> \/ Len(results) >= limit THEN results
  ELSE LET event == ParseLine(Head(lines))
       IN queryLines(Tail(lines), options, limit,
                     IF Matches(event, options) THEN Append(results, event) ELSE results)

\* The outer loop of query over the files.
RECURSIVE queryFiles(_, _, _, _, _)
queryFiles(files, log, options, limit, results) ==
  IF files = <<>> \/ Len(results) >= limit THEN results
  ELSE queryFiles(Tail(files), log, options, limit,
                  queryLines(ReadLines(log, Head(files)), options, limit, results))

\* query scanning the files in the order the directory lists them.
query_unsorted(log, options) ==
  queryFiles(FilesAsListed(log), log, options,
             IF "limit" \in DOMAIN options THEN options.limit ELSE DefaultLimit, <<>>)

\* AuditLogger.query(options)
query(log, options) ==
  queryFiles(SortFiles(Partitions(log)), log, options,
             IF "limit" \in DOMAIN options THEN options.limit ELSE DefaultLimit, <<>>)

\* AuditLogger.exportToCSV(options): the header and one row per event of
\* query(options).
CsvHeader == <<"timestamp", "eventType", "userName", "result">>
exportToCSV(log, options) ==
  LET events == query(log, options)
  IN <<CsvHeader>> \o
     [i \in 1..Len(events) |->
        <<events[i].timestamp, events[i].eventType, events[i].userName,
          IF events[i].success THEN "ok" ELSE "failed">>]

\* AuditLogger.getStats(options): the counts over query(options + limit 10000).
\* successRate is the fraction successCount / totalEvents, kept as a pair.
getStats(log, options) ==
  LET events == query(log, [limit |-> StatsLimit] @@ options)
      idx == 1..Len(events)
      types == {events[i].eventType : i \in idx}
      names == {events[i].userName : i \in idx}
      successCount == Cardinality({i \in idx : events[i].success})
  IN [totalEvents |-> Len(events),
      eventsByType |-> [t \in types |-> Cardinality({i \in idx : events[i].eventType = t})],
      eventsByUser |-> [n \in names |-> Cardinality({i \in idx : events[i].userName = n})],
      successRate |-> IF Len(events) > 0 THEN <<successCount, Len(events)>> ELSE <<0, 1>>]

\* The three reading operations as calls on the logger.
AuditLoggerQuery(options) ==
  /\ logger # NoLogger
  /\ probe' = [fn |-> "query", options |-> options, result |-> query(auditLog, options)]
  /\ UNCHANGED <<identityMap, pendingRequests, nextId, inflight, last, resolved, auditLog,
                 logger, fw, cfg, authConfig>>

AuditLoggerExportToCSV(options) ==
  /\ logger # NoLogger
  /\ probe' = [fn |-> "exportToCSV", options |-> options,
               result |-> exportToCSV(auditLog, options)]
  /\ UNCHANGED <<identityMap, pendingRequests, nextId, inflight, last, resolved, auditLog,
                 logger, fw, cfg, authConfig>>

AuditLoggerGetStats(options) ==
  /\ logger # NoLogger
  /\ probe' = [fn |-> "getStats", options |-> options,
               result |-> getStats(auditLog, options)]
  /\ UNCHANGED <<identityMap, pendingRequests, nextId, inflight, last, resolved, auditLog,
                 logger, fw, cfg, authConfig>>

----------------------------------------------------------------------------
(* File watcher (file-watcher.ts, FileWatcher) *)

Paths == {"map.json", "other.json"}
Callbacks == {"cb1", "cb2"}

\* Map.set and Map.delete on a map kept as a function on its keys.
EmptyMap == [x \in {} |-> x]
MapSet(m, k, v) == [x \in DOMAIN m \cup {k} |-> IF x = k THEN v ELSE m[x]]
MapDelete(m, k) == [x \in DOMAIN m \ {k} |-> m[x]]

\* An id no object of the set carries.
FreshId(objects) ==
  CHOOSE n \in 1..(Cardinality(objects) + 1) : \A o \in objects : o.id # n

NoCall == [op |-> "none"]

\* new FileWatcher(debounceMs), with the runtime it lives in: the FSWatcher
\* handles that are open and the timers that are armed.  exists, quiet,
\* unreported, latest, lastCall and fired are not fields of the class: the
\* files that exist, the time since the last notification of a path (counted
\* up to debounceMs), the notifications of a path no callback has followed,
\* the callback of the last watch of a path, the last call made on the
\* watcher, and the callback the last step invoked.
NewWatcher(debounceMs, exists) ==
  [debounceMs |-> debounceMs,
   watchers |-> EmptyMap,
   debounceTimers |-> EmptyMap,
   handles |-> {},
   timers |-> {},
   exists |-> exists,
   quiet |-> [path \in Paths |-> debounceMs],
   unreported |-> [path \in Paths |-> 0],
   latest |-> [path \in Paths |-> "none"],
   lastCall |-> NoCall,
   fired |-> NoCall]

\* No FileWatcher has been constructed.
NoWatcher == [debounceMs |-> 0]

\* unwatch that closes the watcher and leaves the debounce timer armed.
unwatch_keepsTimer(w, filePath) ==
  IF filePath \in DOMAIN w.watchers
  THEN [w EXCEPT !.handles = {h \in @ : h.id # w.watchers[filePath]},
                 !.watchers = MapDelete(@, filePath)]
  ELSE w

\* unwatch(filePath): the watcher of the path, if any, is closed and
\* forgotten; the debounce timer of the path, if any, is cleared and forgotten.
unwatch(w, filePath) ==
  LET closed == IF filePath \in DOMAIN w.watchers
                THEN [w EXCEPT !.handles = {h \in @ : h.id # w.watchers[filePath]},
                               !.watchers = MapDelete(@, filePath)]
                ELSE w
  IN IF filePath \in DOMAIN closed.debounceTimers
     THEN [closed EXCEPT !.timers = {t \in @ : t.id # closed.debounceTimers[filePath]},
                         !.debounceTimers = MapDelete(@, filePath)]
     ELSE closed

\* watch without the unwatch it starts with.
watch_stacks(w, filePath, callback, watchOk) ==
  IF filePath \notin w.exists THEN w
  ELSE IF watchOk
       THEN LET watcher == [id |-> FreshId(w.handles), filePath |-> filePath,
                            callback |-> callback]
            IN [w EXCEPT !.handles = @ \cup {watcher},
                         !.watchers = MapSet(@, filePath, watcher.id)]
       ELSE w

\* watch without the test that the file exists.
watch_unchecked(w, filePath, callback, watchOk) ==
  LET stopped == unwatch(w, filePath)
  IN IF watchOk
     THEN LET watcher == [id |-> FreshId(stopped.handles), filePath |-> filePath,
                          callback |-> callback]
          IN [stopped EXCEPT !.handles = @ \cup {watcher},
                             !.watchers = MapSet(@, filePath, watcher.id)]
     ELSE stopped

\* watch(filePath, callback): unwatch first; nothing more when the file does
\* not exist; otherwise fs.watch opens a watcher whose listener debounces the
\* callback, and the watcher is remembered.  When fs.watch throws, the error
\* is logged and nothing is remembered.
watch(w, filePath, callback, watchOk) ==
  LET stopped == unwatch(w, filePath)
  IN IF filePath \notin stopped.exists THEN stopped
     ELSE IF watchOk
          THEN LET watcher == [id |-> FreshId(stopped.handles), filePath |-> filePath,
                               callback |-> callback]
               IN [stopped EXCEPT !.handles = @ \cup {watcher},
                                  !.watchers = MapSet(@, filePath, watcher.id)]
          ELSE stopped

\* unwatchAll(): every remembered watcher is closed, every remembered timer
\* is cleared, both maps are emptied.
unwatchAll(w) ==
  [w EXCEPT !.handles = {h \in @ : \A path \in DOMAIN w.watchers : h.id # w.watchers[path]},
            !.watchers = EmptyMap,
            !.timers =
              {t \in @ : \A path \in DOMAIN w.debounceTimers : t.id # w.debounceTimers[path]},
            !.debounceTimers = EmptyMap]

\* debounce without clearing the timer that is already armed.
debounce_stacks(w, filePath, callback) ==
  LET timer == [id |-> FreshId(w.timers), filePath |-> filePath, callback |-> callback,
                remaining |-> w.debounceMs]
  IN [w EXCEPT !.timers = @ \cup {timer},
               !.debounceTimers = MapSet(@, filePath, timer.id)]

\* debounce(filePath, callback): the timer remembered for the path is cleared,
\* a timer of debounceMs is armed and remembered in its place.
debounce(w, filePath, callback) ==
  LET cleared == IF filePath \in DOMAIN w.debounceTimers
                 THEN {t \in w.timers : t.id # w.debounceTimers[filePath]}
                 ELSE w.timers
      timer == [id |-> FreshId(cleared), filePath |-> filePath, callback |-> callback,
                remaining |-> w.debounceMs]
  IN [w EXCEPT !.timers = cleared \cup {timer},
               !.debounceTimers = MapSet(@, filePath, timer.id)]

\* A call of watch.
Watch(filePath, callback, watchOk) ==
  /\ fw # NoWatcher
  /\ fw' = [watch(fw, filePath, callback, watchOk) EXCEPT
              !.unreported[filePath] = 0,
              !.latest[filePath] = callback,
              !.lastCall = [op |-> "watch", filePath |-> filePath, callback |-> callback,
                            existed |-> filePath \in fw.exists, watchOk |-> watchOk,
                            watched |-> filePath \in DOMAIN fw.watchers],
              !.fired = NoCall]
  /\ UNCHANGED <<identityMap, pendingRequests, nextId, inflight, last, resolved, auditLog,
                 logger, cfg, probe, authConfig>>

\* A call of unwatch.
Unwatch(filePath) ==
  /\ fw # NoWatcher
  /\ fw' = [unwatch(fw, filePath) EXCEPT
              !.unreported[filePath] = 0,
              !.lastCall = [op |-> "unwatch", filePath |-> filePath,
                            pending |-> filePath \in DOMAIN fw.debounceTimers,
                            quiet |-> fw.quiet[filePath]],
              !.fired = NoCall]
  /\ UNCHANGED <<identityMap, pendingRequests, nextId, inflight, last, resolved, auditLog,
                 logger, cfg, probe, authConfig>>

\* A call of unwatchAll.
UnwatchAll ==
  /\ fw # NoWatcher
  /\ fw' = [unwatchAll(fw) EXCEPT
              !.unreported = [path \in Paths |-> 0],
              !.lastCall = [op |-> "unwatchAll", pending |-> DOMAIN fw.debounceTimers],
              !.fired = NoCall]
  /\ UNCHANGED <<identityMap, pendingRequests, nextId, inflight, last, resolved, auditLog,
                 logger, cfg, probe, authConfig>>

\* The listener of an open watcher receives a "change" event.
Change(watcher) ==
  /\ fw # NoWatcher
  /\ watcher \in fw.handles
  /\ fw.unreported[watcher.filePath] < MaxBurst
  /\ fw' = [debounce(fw, watcher.filePath, watcher.callback) EXCEPT
              !.quiet[watcher.filePath] = 0,
              !.unreported[watcher.filePath] = @ + 1,
              !.fired = NoCall]
  /\ UNCHANGED <<identityMap, pendingRequests, nextId, inflight, last, resolved, auditLog,
                 logger, cfg, probe, authConfig>>

\* One unit of time passes.  A timer that is due fires before more time passes.
Tick ==
  /\ fw # NoWatcher
  /\ \A t \in fw.timers : t.remaining > 0
  /\ fw' = [fw EXCEPT
              !.timers = {[t EXCEPT !.remaining = @ - 1] : t \in @},
              !.quiet = [path \in Paths |->
                           IF @[path] < fw.debounceMs THEN @[path] + 1 ELSE @[path]],
              !.fired = NoCall]
  /\ UNCHANGED <<identityMap, pendingRequests, nextId, inflight, last, resolved, auditLog,
                 logger, cfg, probe, authConfig>>

\* A timer that is due fires: the callback is invoked, then the timer of the
\* path is forgotten.
Fire(timer) ==
  /\ fw # NoWatcher
  /\ timer \in fw.timers
  /\ timer.remaining = 0
  /\ fw' = [fw EXCEPT
              !.timers = @ \ {timer},
              !.debounceTimers = MapDelete(@, timer.filePath),
              !.unreported[timer.filePath] = 0,
              !.fired = [op |-> "callback", filePath |-> timer.filePath,
                         callback |-> timer.callback,
                         coalesced |-> fw.unreported[timer.filePath],
                         quiet |-> fw.quiet[timer.filePath]]]
  /\ UNCHANGED <<identityMap, pendingRequests, nextId, inflight, last, resolved, auditLog,
                 logger, cfg, probe, authConfig>>

\* The file of a path is removed, or created.
FileRemoved(filePath) ==
  /\ fw # NoWatcher
  /\ filePath \in fw.exists
  /\ fw' = [fw EXCEPT !.exists = @ \ {filePath}, !.fired = NoCall]
  /\ UNCHANGED <<identityMap, pendingRequests, nextId, inflight, last, resolved, auditLog,
                 logger, cfg, probe, authConfig>>

FileCreated(filePath) ==
  /\ fw # NoWatcher
  /\ filePath \notin fw.exists
  /\ fw' = [fw EXCEPT !.exists = @ \cup {filePath}, !.fired = NoCall]
  /\ UNCHANGED <<identityMap, pendingRequests, nextId, inflight, last, resolved, auditLog,
                 logger, cfg, probe, authConfig>>

----------------------------------------------------------------------------
(* Dynamic agents (dynamic-agent.ts) *)

\* An agent id is the prefix "feishu-" and a name.  The agents of other
\* channels have other prefixes.
FeishuId(name) == [prefix |-> "feishu-", name |-> name]
MainAgent == [id |-> [prefix |-> "", name |-> <<"main">>]]

\* The characters the sanitising pattern removes; a token stands for a run of
\* characters of one kind.
SpecialTokens == {" ", "!", "."}

\* slice(0, 20): the cap on the sanitised name, counted in tokens.
NameLimit == 20

\* openId.replace(/^ou_/, "")
OpenIdTail(openId) ==
  CASE openId = "ou_A" -> "A"
    [] openId = "ou_B" -> "B"
    [] openId = "ou_M" -> "M"
    [] OTHER -> openId

\* What identityMapPath leads to: no path was given, or a file.
NoPath == [state |-> "nopath", doc |-> NoRegistry]

\* generateAgentId(openId, identityMapPath): the sanitised, capped name of the
\* registry entry of openId, whatever its status; the open id without ou_
\* when there is no path, no registry, no entry or no name.
generateAgentId(openId, file) ==
  LET user == IF file = NoPath THEN NoUser ELSE getUserInfo(loadIdentityMap(file), openId)
      kept == SelectSeq(user.name, LAMBDA token : token \notin SpecialTokens)
      safeName == SubSeq(kept, 1, IF Len(kept) < NameLimit THEN Len(kept) ELSE NameLimit)
  IN IF user.name # <<>> THEN FeishuId(safeName) ELSE FeishuId(<<OpenIdTail(openId)>>)

\* getUserModel(identityMap, openId, defaultModel); "" is no model.
getUserModel(registry, openId, defaultModel) ==
  IF registry = NoRegistry THEN defaultModel
  ELSE LET user == Lookup(registry, openId)
       IN IF user = NoUser \/ user.status # "active" THEN defaultModel
          ELSE IF "model" \in DOMAIN user THEN user.model ELSE defaultModel

\* getUserSystemPrompt(identityMap, openId); "" is no prompt.
getUserSystemPrompt(registry, openId) ==
  IF registry = NoRegistry THEN ""
  ELSE LET user == Lookup(registry, openId)
       IN IF user = NoUser \/ user.status # "active" THEN ""
          ELSE IF "systemPrompt" \in DOMAIN user THEN user.systemPrompt ELSE ""

\* The default templates with {agentId} substituted and ~ expanded.
Workspace(agentId) == <<"home", ".openclaw", "workspace-", agentId>>
AgentDir(agentId) == <<"home", ".openclaw", "agents", agentId, "agent">>

DmBinding(agentId, openId) ==
  [agentId |-> agentId, match |-> [channel |-> "feishu", peer |-> [kind |-> "dm", id |-> openId]]]

\* The configuration without agents and bindings.
NoConfig == [agents |-> <<>>, bindings |-> <<>>]

hasBinding(config, senderOpenId) ==
  \E i \in 1..Len(config.bindings) :
    /\ config.bindings[i].match.channel = "feishu"
    /\ config.bindings[i].match.peer.kind = "dm"
    /\ config.bindings[i].match.peer.id = senderOpenId

feishuAgentCount(config) ==
  Cardinality({i \in 1..Len(config.agents) : config.agents[i].id.prefix = "feishu-"})

Declined(config) ==
  [created |-> FALSE, updatedCfg |-> config, mkdirs |-> {}, wrote |-> FALSE]

\* maybeCreateDynamicAgent without the test for an existing binding.
maybeCreateDynamicAgent_rebinds(config, senderOpenId, dynamicCfg, file, mode, defaultModel) ==
  LET agentId == generateAgentId(senderOpenId, file)
      binding == DmBinding(agentId, senderOpenId)
      registry == IF file = NoPath THEN NoRegistry ELSE loadIdentityMap(file)
      userModel == IF mode = "unified" THEN defaultModel
                   ELSE IF file # NoPath /\ registry # NoRegistry
                        THEN getUserModel(registry, senderOpenId, defaultModel)
                        ELSE ""
      userSystemPrompt == IF mode # "unified" /\ file # NoPath /\ registry # NoRegistry
                          THEN getUserSystemPrompt(registry, senderOpenId)
                          ELSE ""
      agentConfig ==
        [id |-> agentId, workspace |-> Workspace(agentId), agentDir |-> AgentDir(agentId)]
        @@ (IF userModel # "" THEN [model |-> userModel] ELSE EmptyMap)
        @@ (IF userSystemPrompt # "" THEN [systemPrompt |-> userSystemPrompt] ELSE EmptyMap)
  IN IF "maxAgents" \in DOMAIN dynamicCfg /\ feishuAgentCount(config) >= dynamicCfg.maxAgents
     THEN Declined(config)
     ELSE IF \E i \in 1..Len(config.agents) : config.agents[i].id = agentId
     THEN [created |-> TRUE, agentId |-> agentId, mkdirs |-> {}, wrote |-> TRUE,
           updatedCfg |-> [config EXCEPT !.bindings = Append(@, binding)]]
     ELSE [created |-> TRUE, agentId |-> agentId,
           mkdirs |-> {Workspace(agentId), AgentDir(agentId)}, wrote |-> TRUE,
           updatedCfg |-> [config EXCEPT !.agents = Append(@, agentConfig),
                                         !.bindings = Append(@, binding)]]

\* maybeCreateDynamicAgent declining only above the ceiling.
maybeCreateDynamicAgent_overCeiling(config, senderOpenId, dynamicCfg, file, mode, defaultModel) ==
  LET agentId == generateAgentId(senderOpenId, file)
      binding == DmBinding(agentId, senderOpenId)
      registry == IF file = NoPath THEN NoRegistry ELSE loadIdentityMap(file)
      userModel == IF mode = "unified" THEN defaultModel
                   ELSE IF file # NoPath /\ registry # NoRegistry
                        THEN getUserModel(registry, senderOpenId, defaultModel)
                        ELSE ""
      userSystemPrompt == IF mode # "unified" /\ file # NoPath /\ registry # NoRegistry
                          THEN getUserSystemPrompt(registry, senderOpenId)
                          ELSE ""
      agentConfig ==
        [id |-> agentId, workspace |-> Workspace(agentId), agentDir |-> AgentDir(agentId)]
        @@ (IF userModel # "" THEN [model |-> userModel] ELSE EmptyMap)
        @@ (IF userSystemPrompt # "" THEN [systemPrompt |-> userSystemPrompt] ELSE EmptyMap)
  IN IF hasBinding(config, senderOpenId) THEN Declined(config)
     ELSE IF "maxAgents" \in DOMAIN dynamicCfg /\ feishuAgentCount(config) > dynamicCfg.maxAgents
     THEN Declined(config)
     ELSE IF \E i \in 1..Len(config.agents) : config.agents[i].id = agentId
     THEN [created |-> TRUE, agentId |-> agentId, mkdirs |-> {}, wrote |-> TRUE,
           updatedCfg |-> [config EXCEPT !.bindings = Append(@, binding)]]
     ELSE [created |-> TRUE, agentId |-> agentId,
           mkdirs |-> {Workspace(agentId), AgentDir(agentId)}, wrote |-> TRUE,
           updatedCfg |-> [config EXCEPT !.agents = Append(@, agentConfig),
                                         !.bindings = Append(@, binding)]]

\* maybeCreateDynamicAgent(params) up to its return value, with the
\* directories it creates and whether it writes the configuration file.
\* Nothing happens for a sender that has a binding, nor at the ceiling of
\* feishu agents; an existing agent of the derived id only gets the binding;
\* otherwise the agent is created with the model and prompt of the mode.
maybeCreateDynamicAgent(config, senderOpenId, dynamicCfg, file, mode, defaultModel) ==
  LET agentId == generateAgentId(senderOpenId, file)
      binding == DmBinding(agentId, senderOpenId)
      registry == IF file = NoPath THEN NoRegistry ELSE loadIdentityMap(file)
      userModel == IF mode = "unified" THEN defaultModel
                   ELSE IF file # NoPath /\ registry # NoRegistry
                        THEN getUserModel(registry, senderOpenId, defaultModel)
                        ELSE ""
      userSystemPrompt == IF mode # "unified" /\ file # NoPath /\ registry # NoRegistry
                          THEN getUserSystemPrompt(registry, senderOpenId)
                          ELSE ""
      agentConfig ==
        [id |-> agentId, workspace |-> Workspace(agentId), agentDir |-> AgentDir(agentId)]
        @@ (IF userModel # "" THEN [model |-> userModel] ELSE EmptyMap)
        @@ (IF userSystemPrompt # "" THEN [systemPrompt |-> userSystemPrompt] ELSE EmptyMap)
  IN IF hasBinding(config, senderOpenId) THEN Declined(config)
     ELSE IF "maxAgents" \in DOMAIN dynamicCfg /\ feishuAgentCount(config) >= dynamicCfg.maxAgents
     THEN Declined(config)
     ELSE IF \E i \in 1..Len(config.agents) : config.agents[i].id = agentId
     THEN [created |-> TRUE, agentId |-> agentId, mkdirs |-> {}, wrote |-> TRUE,
           updatedCfg |-> [config EXCEPT !.bindings = Append(@, binding)]]
     ELSE [created |-> TRUE, agentId |-> agentId,
           mkdirs |-> {Workspace(agentId), AgentDir(agentId)}, wrote |-> TRUE,
           updatedCfg |-> [config EXCEPT !.agents = Append(@, agentConfig),
                                         !.bindings = Append(@, binding)]]

\* A call of maybeCreateDynamicAgent on the configuration the caller holds.
\* The caller continues with the configuration returned; when writeConfigFile
\* rejects, the call throws and the caller keeps what it had.
MaybeCreateDynamicAgent(senderOpenId, dynamicCfg, file, mode, defaultModel, writeOk) ==
  LET result == maybeCreateDynamicAgent(cfg, senderOpenId, dynamicCfg, file, mode, defaultModel)
      call == [fn |-> "maybeCreateDynamicAgent", senderOpenId |-> senderOpenId,
               dynamicCfg |-> dynamicCfg, file |-> file, mode |-> mode,
               defaultModel |-> defaultModel, before |-> cfg]
  IN /\ IF result.wrote /\ ~writeOk
        THEN /\ cfg' = cfg
             /\ probe' = call @@ [threw |-> TRUE, mkdirs |-> result.mkdirs]
        ELSE /\ cfg' = result.updatedCfg
             /\ probe' = call @@ [threw |-> FALSE, result |-> result]
     /\ UNCHANGED <<identityMap, pendingRequests, nextId, inflight, last, resolved, auditLog,
                    logger, fw, authConfig>>

----------------------------------------------------------------------------
(* Authorization coordinator (central-auth.ts, CentralAuthManager) *)

Messages ==
  {<<"hello">>, <<"docker">>, <<"rule">>, <<"x_duqu_wenjian_x">>,
   <<"woshi", "BigA">>, <<"woshi", "Ada">>, <<"woshi", "docker">>}

NoReply == [kind |-> "none", name |-> <<>>]
RegisterFirst == [kind |-> "register_first", name |-> <<>>]
NotInGroup == [kind |-> "not_in_group", name |-> <<>>]

NoRequestId == [prefix |-> "none", n |-> 0]
PermId(n) == [prefix |-> "perm", n |-> n]
VerifyId(n) == [prefix |-> "verify", n |-> n]

Outcome(shouldProcess, reply, forwardToMaster) ==
  [shouldProcess |-> shouldProcess, reply |-> reply, forwardToMaster |-> forwardToMaster]

\* OperationCheck without the local rejection of unregistered senders.
OperationCheck_noLevelCheck(registry, openId, message, isGroup) ==
  LET userLevel == getUserLevel(registry, openId)
      operationType == detectOperationType(message)
      hasPermission == checkPermission(userLevel, operationType, FALSE, FALSE)
      locals == [userLevel |-> userLevel, operationType |-> operationType,
                 regName |-> RegistryName(registry, openId)]
  IN IF ~hasPermission /\ isSensitiveOperation(operationType)
     THEN [pc |-> "await_perm",
           out |-> Outcome(FALSE, getPermissionDeniedMessage(userLevel, operationType), TRUE)]
          @@ locals
     ELSE IF isGroup /\ isSensitiveOperation(operationType)
     THEN [pc |-> "return", out |-> Outcome(FALSE, NotInGroup, FALSE)] @@ locals
     ELSE [pc |-> "return", out |-> Outcome(TRUE, NoReply, FALSE)] @@ locals

\* OperationCheck without the group containment.
OperationCheck_noGroupCheck(registry, openId, message, isGroup) ==
  LET identityClaim == extractIdentityClaim(message)
      userLevel == getUserLevel(registry, openId)
      operationType == detectOperationType(message)
      hasPermission == checkPermission(userLevel, operationType, FALSE, FALSE)
      locals == [userLevel |-> userLevel, operationType |-> operationType,
                 regName |-> RegistryName(registry, openId)]
  IN IF userLevel = "L0" /\ identityClaim = NoClaim
     THEN [pc |-> "return", out |-> Outcome(FALSE, RegisterFirst, FALSE)] @@ locals
     ELSE IF ~hasPermission /\ isSensitiveOperation(operationType)
     THEN [pc |-> "await_perm",
           out |-> Outcome(FALSE, getPermissionDeniedMessage(userLevel, operationType), TRUE)]
          @@ locals
     ELSE [pc |-> "return", out |-> Outcome(TRUE, NoReply, FALSE)] @@ locals

\* OperationCheck with the level check placed after the operation check.
OperationCheck_levelAfterOperation(registry, openId, message, isGroup) ==
  LET identityClaim == extractIdentityClaim(message)
      userLevel == getUserLevel(registry, openId)
      operationType == detectOperationType(message)
      hasPermission == checkPermission(userLevel, operationType, FALSE, FALSE)
      locals == [userLevel |-> userLevel, operationType |-> operationType,
                 regName |-> RegistryName(registry, openId)]
  IN IF ~hasPermission /\ isSensitiveOperation(operationType)
     THEN [pc |-> "await_perm",
           out |-> Outcome(FALSE, getPermissionDeniedMessage(userLevel, operationType), TRUE)]
          @@ locals
     ELSE IF userLevel = "L0" /\ identityClaim = NoClaim
     THEN [pc |-> "return", out |-> Outcome(FALSE, RegisterFirst, FALSE)] @@ locals
     ELSE IF isGroup /\ isSensitiveOperation(operationType)
     THEN [pc |-> "return", out |-> Outcome(FALSE, NotInGroup, FALSE)] @@ locals
     ELSE [pc |-> "return", out |-> Outcome(TRUE, NoReply, FALSE)] @@ locals

\* OperationCheck with the group containment tested before the permission
\* decision.
OperationCheck_groupFirst(registry, openId, message, isGroup) ==
  LET identityClaim == extractIdentityClaim(message)
      userLevel == getUserLevel(registry, openId)
      operationType == detectOperationType(message)
      hasPermission == checkPermission(userLevel, operationType, FALSE, FALSE)
      locals == [userLevel |-> userLevel, operationType |-> operationType,
                 regName |-> RegistryName(registry, openId)]
  IN IF userLevel = "L0" /\ identityClaim = NoClaim
     THEN [pc |-> "return", out |-> Outcome(FALSE, RegisterFirst, FALSE)] @@ locals
     ELSE IF isGroup /\ isSensitiveOperation(operationType)
     THEN [pc |-> "return", out |-> Outcome(FALSE, NotInGroup, FALSE)] @@ locals
     ELSE IF ~hasPermission /\ isSensitiveOperation(operationType)
     THEN [pc |-> "await_perm",
           out |-> Outcome(FALSE, getPermissionDeniedMessage(userLevel, operationType), TRUE)]
          @@ locals
     ELSE [pc |-> "return", out |-> Outcome(TRUE, NoReply, FALSE)] @@ locals

\* Steps 2 to 4 of handleIncomingMessage, up to the await of the display name.
OperationCheck(registry, openId, message, isGroup) ==
  LET identityClaim == extractIdentityClaim(message)
      userLevel == getUserLevel(registry, openId)
      operationType == detectOperationType(message)
      hasPermission == checkPermission(userLevel, operationType, FALSE, FALSE)
      locals == [userLevel |-> userLevel, operationType |-> operationType,
                 regName |-> RegistryName(registry, openId)]
  IN IF userLevel = "L0" /\ identityClaim = NoClaim
     THEN [pc |-> "return", out |-> Outcome(FALSE, RegisterFirst, FALSE)] @@ locals
     ELSE IF ~hasPermission /\ isSensitiveOperation(operationType)
     THEN [pc |-> "await_perm",
           out |-> Outcome(FALSE, getPermissionDeniedMessage(userLevel, operationType), TRUE)]
          @@ locals
     ELSE IF isGroup /\ isSensitiveOperation(operationType)
     THEN [pc |-> "return", out |-> Outcome(FALSE, NotInGroup, FALSE)] @@ locals
     ELSE [pc |-> "return", out |-> Outcome(TRUE, NoReply, FALSE)] @@ locals

\* The synchronous part of handleIncomingMessage: everything it does before it
\* returns or reaches its await.  All reads of the registry happen here.
Decide(registry, openId, message, isGroup) ==
  LET identityClaim == extractIdentityClaim(message)
      result == handleIdentityClaim(registry, openId, identityClaim)
      locals == [userLevel |-> "L0", operationType |-> "query",
                 regName |-> RegistryName(registry, openId)]
  IN IF identityClaim # NoClaim /\ registry.loaded
     THEN IF result.autoConfirmed /\ result.existingUser # NoUser
          THEN [pc |-> "return", out |-> Outcome(TRUE, result.message, FALSE)] @@ locals
          ELSE IF ~result.autoConfirmed
          THEN [pc |-> "await_claim", out |-> Outcome(FALSE, result.message, TRUE)] @@ locals
          ELSE OperationCheck(registry, openId, message, isGroup)
     ELSE OperationCheck(registry, openId, message, isGroup)

\* The levels of the active users that carry the name, in registry order.
RECURSIVE HolderLevels(_, _)
HolderLevels(users, name) ==
  IF users = <<>> THEN <<>>
  ELSE IF Head(users).user.name = name /\ Head(users).user.status = "active"
  THEN <<Head(users).user.level>> \o HolderLevels(Tail(users), name)
  ELSE HolderLevels(Tail(users), name)

\* handleIdentityClaim was not called.
NotClaimed == [isNewClaim |-> FALSE, autoConfirmed |-> FALSE, existingUser |-> NoUser,
               message |-> NoReply]

\* What an observer knows about a call: its parameters and the sender's
\* standing in the registry the call read.
CallInfo(registry, openId, message, isGroup) ==
  [openId |-> openId, message |-> message, isGroup |-> isGroup,
   hasRegistry |-> registry.loaded,
   hasEntry |-> HasKey(registry, openId),
   status |-> Lookup(registry, openId).status,
   level |-> getUserLevel(registry, openId),
   nameHolders |-> HolderLevels(registry.verified_users, extractIdentityClaim(message)),
   claimResult |-> IF extractIdentityClaim(message) # NoClaim /\ registry.loaded
                   THEN handleIdentityClaim(registry, openId, extractIdentityClaim(message))
                   ELSE NotClaimed]

\* new CentralAuthManager(config, runtime): this.config is the settings passed
\* in, with enableAutoConfirm true unless they set it.
CentralAuthManagerConfig(config) == config @@ [enableAutoConfirm |-> TRUE]

\* The settings of a manager built without enableAutoConfirm.
DefaultConfig == CentralAuthManagerConfig(EmptyMap)

Idle == [pc |-> "idle"]
NoOutcome == [op |-> "none"]

Busy == {c \in 1..MaxCalls : inflight[c].pc # "idle"}

Init ==
  /\ identityMap \in {loadIdentityMap(f) : f \in FileContents}
  /\ pendingRequests = <<>>
  /\ nextId = 0
  /\ inflight = [c \in 1..MaxCalls |-> Idle]
  /\ last = NoOutcome
  /\ resolved = {}
  /\ auditLog = <<>>
  /\ logger = NoLogger
  /\ fw = NoWatcher
  /\ cfg = NoConfig
  /\ probe = [fn |-> "none"]
  /\ authConfig = DefaultConfig

\* reloadIdentityMap: the snapshot is replaced by whatever the file holds now;
\* the call returns nothing.
ReloadIdentityMap ==
  /\ \E f \in FileContents : identityMap' = loadIdentityMap(f)
  /\ last' = [op |-> "reload"]
  /\ UNCHANGED <<pendingRequests, nextId, inflight, resolved, auditLog, logger, fw, cfg, probe, authConfig>>

\* handleIncomingMessage up to its return or its await.
HandleIncomingMessage(openId, message, isGroup) ==
  LET d == Decide(identityMap, openId, message, isGroup)
      call == CallInfo(identityMap, openId, message, isGroup)
  IN IF d.pc = "return"
     THEN /\ last' = [op |-> "message", call |-> call, reloaded |-> FALSE,
                      result |-> d.out @@ [requestId |-> NoRequestId]]
          /\ UNCHANGED <<identityMap, pendingRequests, nextId, inflight, resolved, auditLog, logger, fw, cfg, probe, authConfig>>
     ELSE /\ Busy # 1..MaxCalls
          /\ LET c == CHOOSE k \in 1..MaxCalls \ Busy : \A j \in 1..MaxCalls \ Busy : k <= j
             IN inflight' = [inflight EXCEPT ![c] = d @@ [call |-> call, snapshot |-> identityMap]]
          /\ UNCHANGED <<identityMap, pendingRequests, nextId, last, resolved, auditLog, logger, fw, cfg, probe, authConfig>>

\* addPendingVerification: generates an id and stores nothing.
addPendingVerification(n) == VerifyId(n)

\* The continuation of the identity-claim branch after its await.
ResumeIdentityClaim(c) ==
  /\ inflight[c].pc = "await_claim"
  /\ LET requestId == addPendingVerification(nextId + 1)
     IN last' = [op |-> "message", call |-> inflight[c].call,
                 reloaded |-> (identityMap # inflight[c].snapshot),
                 result |-> inflight[c].out @@ [requestId |-> requestId]]
  /\ nextId' = nextId + 1
  /\ inflight' = [inflight EXCEPT ![c] = Idle]
  /\ UNCHANGED <<identityMap, pendingRequests, resolved, auditLog, logger, fw, cfg, probe, authConfig>>

\* The value of the awaited getUserDisplayName: the registry name read before
\* the await, else the platform's name or the shortened id.
DisplayNames(regName, openId) ==
  IF regName # <<>> THEN {regName} ELSE {ApiName(openId), shortenOpenId(openId)}

PermissionRequest(requestId, call, userName, userLevel, operation) ==
  [requestId |-> requestId, openId |-> call.openId, userName |-> userName,
   userLevel |-> userLevel, operation |-> operation,
   originalMessage |-> call.message,
   sourceChannel |-> IF call.isGroup THEN "group" ELSE "dm"]

\* pendingRequests.set(requestId, request)
addPendingPermissionRequest(pending, request) ==
  [r \in (DOMAIN pending) \cup {request.requestId} |->
     IF r = request.requestId THEN request ELSE pending[r]]

\* The continuation that looks the sender up again after the await.
ResumePermissionRequest_rereads(c) ==
  /\ inflight[c].pc = "await_perm"
  /\ \E displayName \in DisplayNames(RegistryName(identityMap, inflight[c].call.openId),
                                      inflight[c].call.openId) :
       LET requestId == PermId(nextId + 1)
           userLevel == getUserLevel(identityMap, inflight[c].call.openId)
           request == PermissionRequest(requestId, inflight[c].call, displayName,
                                        userLevel, inflight[c].operationType)
       IN /\ pendingRequests' = addPendingPermissionRequest(pendingRequests, request)
          /\ last' = [op |-> "message", call |-> inflight[c].call,
                      reloaded |-> (identityMap # inflight[c].snapshot),
                      result |-> inflight[c].out @@ [requestId |-> requestId]]
  /\ nextId' = nextId + 1
  /\ inflight' = [inflight EXCEPT ![c] = Idle]
  /\ UNCHANGED <<identityMap, resolved, auditLog, logger, fw, cfg, probe, authConfig>>

\* The continuation of the denied-sensitive branch after its await.
ResumePermissionRequest(c) ==
  /\ inflight[c].pc = "await_perm"
  /\ \E displayName \in DisplayNames(inflight[c].regName, inflight[c].call.openId) :
       LET requestId == PermId(nextId + 1)
           request == PermissionRequest(requestId, inflight[c].call, displayName,
                                        inflight[c].userLevel, inflight[c].operationType)
       IN /\ pendingRequests' = addPendingPermissionRequest(pendingRequests, request)
          /\ last' = [op |-> "message", call |-> inflight[c].call,
                      reloaded |-> (identityMap # inflight[c].snapshot),
                      result |-> inflight[c].out @@ [requestId |-> requestId]]
  /\ nextId' = nextId + 1
  /\ inflight' = [inflight EXCEPT ![c] = Idle]
  /\ UNCHANGED <<identityMap, resolved, auditLog, logger, fw, cfg, probe, authConfig>>

NoRequest == [requestId |-> NoRequestId]

\* delete that leaves the entry in place
deletePending_keeps(pending, requestId) == pending

\* delete that empties the whole map
deletePending_clears(pending, requestId) == <<>>

\* pendingRequests.delete(requestId)
deletePending(pending, requestId) ==
  [r \in (DOMAIN pending) \ {requestId} |-> pending[r]]

\* The registry with the entry of openId raised to L1.
Promote(registry, openId) ==
  [registry EXCEPT !.verified_users =
     [i \in DOMAIN registry.verified_users |->
        IF registry.verified_users[i].id = openId
        THEN [registry.verified_users[i] EXCEPT !.user.level = "L1"]
        ELSE registry.verified_users[i]]]

\* handlePermissionApproval that grants the sender of an approved request
\* the administrator's level.
HandlePermissionApproval_grants(requestId, approved) ==
  IF requestId \notin DOMAIN pendingRequests
  THEN /\ last' = [op |-> "approval", requestId |-> requestId, approved |-> approved,
                   success |-> FALSE, message |-> "not_found", request |-> NoRequest]
       /\ UNCHANGED <<identityMap, pendingRequests, nextId, inflight, resolved, auditLog, logger, fw, cfg, probe, authConfig>>
  ELSE /\ pendingRequests' = deletePending(pendingRequests, requestId)
       /\ last' = [op |-> "approval", requestId |-> requestId, approved |-> approved,
                   success |-> TRUE,
                   message |-> IF approved THEN "approved" ELSE "rejected",
                   request |-> pendingRequests[requestId]]
       /\ resolved' = resolved \cup {requestId}
       /\ identityMap' = IF approved
                         THEN Promote(identityMap, pendingRequests[requestId].openId)
                         ELSE identityMap
       /\ UNCHANGED <<nextId, inflight, auditLog, logger, fw, cfg, probe, authConfig>>

\* handlePermissionApproval has no await: it runs to completion.
HandlePermissionApproval(requestId, approved) ==
  IF requestId \notin DOMAIN pendingRequests
  THEN /\ last' = [op |-> "approval", requestId |-> requestId, approved |-> approved,
                   success |-> FALSE, message |-> "not_found", request |-> NoRequest]
       /\ UNCHANGED <<identityMap, pendingRequests, nextId, inflight, resolved, auditLog, logger, fw, cfg, probe, authConfig>>
  ELSE /\ pendingRequests' = deletePending(pendingRequests, requestId)
       /\ last' = [op |-> "approval", requestId |-> requestId, approved |-> approved,
                   success |-> TRUE,
                   message |-> IF approved THEN "approved" ELSE "rejected",
                   request |-> pendingRequests[requestId]]
       /\ resolved' = resolved \cup {requestId}
       /\ UNCHANGED <<identityMap, nextId, inflight, auditLog, logger, fw, cfg, probe, authConfig>>

Suspends(openId, message, isGroup) ==
  Decide(identityMap, openId, message, isGroup).pc # "return"

\* In Spec the administrator settles an escalation before the next escalating
\* message arrives; all other calls arrive at any time.
Admit(openId, message, isGroup) ==
  Suspends(openId, message, isGroup)
    => Busy = {} /\ DOMAIN pendingRequests = {} /\ nextId < MaxRequests

Next ==
  \/ ReloadIdentityMap
  \/ \E openId \in Ids, message \in Messages, isGroup \in BOOLEAN :
       /\ Admit(openId, message, isGroup)
       /\ HandleIncomingMessage(openId, message, isGroup)
  \/ \E c \in 1..MaxCalls : ResumeIdentityClaim(c)
  \/ \E c \in 1..MaxCalls : ResumePermissionRequest(c)
  \/ \E n \in 1..MaxRequests, approved \in BOOLEAN :
       HandlePermissionApproval(PermId(n), approved)

Spec == Init /\ [][Next]_vars

\* In SpecConc escalating calls overlap: fewer inputs (direct chats only, the
\* registry loaded at construction), several calls in flight and several
\* requests pending.
AdmitConc(openId, message, isGroup) ==
  Suspends(openId, message, isGroup) => nextId + Cardinality(Busy) < MaxConcRequests

ConcIds == {"ou_A", "ou_B"}
ConcMessages == {<<"docker">>, <<"woshi", "BigA">>}

NextConc ==
  \/ \E openId \in ConcIds, message \in ConcMessages :
       /\ AdmitConc(openId, message, FALSE)
       /\ HandleIncomingMessage(openId, message, FALSE)
  \/ \E c \in 1..MaxCalls : ResumeIdentityClaim(c)
  \/ \E c \in 1..MaxCalls : ResumePermissionRequest(c)
  \/ \E n \in 1..MaxConcRequests, approved \in BOOLEAN :
       HandlePermissionApproval(PermId(n), approved)

SpecConc == Init /\ [][NextConc]_vars

----------------------------------------------------------------------------
(* Registry lookups on arbitrary registries *)

Names == {Ada, BigA}
Entries == {Entry(id, name, level, status) :
              id \in Ids, name \in Names, level \in Levels, status \in Statuses}

DistinctIds(users) ==
  \A i, j \in DOMAIN users : i # j => users[i].id # users[j].id

AllRegistries ==
  {NoRegistry} \cup
  UNION {{Registry(users) : users \in {u \in [1..n -> Entries] : DistinctIds(u)}} :
           n \in 0..MaxUsers}

InitRegistry ==
  /\ identityMap \in AllRegistries
  /\ pendingRequests = <<>>
  /\ nextId = 0
  /\ inflight = [c \in 1..MaxCalls |-> Idle]
  /\ last = NoOutcome
  /\ resolved = {}
  /\ auditLog = <<>>
  /\ logger = NoLogger
  /\ fw = NoWatcher
  /\ cfg = NoConfig
  /\ probe = [fn |-> "none"]
  /\ authConfig = DefaultConfig

\* CentralAuthManager.getUserLevel(openId)
ProbeUserLevel(openId) ==
  /\ probe' = [fn |-> "getUserLevel", openId |-> openId,
               result |-> getUserLevel(identityMap, openId)]
  /\ UNCHANGED <<identityMap, pendingRequests, nextId, inflight, last, resolved, auditLog, logger, fw, cfg, authConfig>>

\* handleIdentityClaim(identityMap, openId, claimedName) on a loaded registry
ProbeIdentityClaim(openId, claimedName) ==
  /\ identityMap.loaded
  /\ probe' = [fn |-> "handleIdentityClaim", openId |-> openId, claimedName |-> claimedName,
               result |-> handleIdentityClaim(identityMap, openId, claimedName)]
  /\ UNCHANGED <<identityMap, pendingRequests, nextId, inflight, last, resolved, auditLog, logger, fw, cfg, authConfig>>

NextRegistry ==
  \/ \E openId \in Ids : ProbeUserLevel(openId)
  \/ \E openId \in Ids, claimedName \in Names : ProbeIdentityClaim(openId, claimedName)

SpecRegistry == InitRegistry /\ [][NextRegistry]_vars

----------------------------------------------------------------------------
(* Gatekeeper decisions on arbitrary arguments *)

InitGatekeeper ==
  /\ identityMap = NoRegistry
  /\ pendingRequests = <<>>
  /\ nextId = 0
  /\ inflight = [c \in 1..MaxCalls |-> Idle]
  /\ last = NoOutcome
  /\ resolved = {}
  /\ auditLog = <<>>
  /\ logger = NoLogger
  /\ fw = NoWatcher
  /\ cfg = NoConfig
  /\ probe = [fn |-> "none"]
  /\ authConfig = DefaultConfig

\* checkPermission(level, operation, isDepartmentResource, isOwnDepartment)
ProbeCheckPermission(level, operation, isDepartmentResource, isOwnDepartment) ==
  /\ probe' = [fn |-> "checkPermission", level |-> level, operation |-> operation,
               isDepartmentResource |-> isDepartmentResource,
               isOwnDepartment |-> isOwnDepartment,
               result |-> checkPermission(level, operation, isDepartmentResource,
                                          isOwnDepartment)]
  /\ UNCHANGED <<identityMap, pendingRequests, nextId, inflight, last, resolved, auditLog, logger, fw, cfg, authConfig>>

NextGatekeeper ==
  \E level \in Levels, operation \in Operations,
     isDepartmentResource \in BOOLEAN, isOwnDepartment \in BOOLEAN :
       ProbeCheckPermission(level, operation, isDepartmentResource, isOwnDepartment)

SpecGatekeeper == InitGatekeeper /\ [][NextGatekeeper]_vars

----------------------------------------------------------------------------
(* The audit logger on its own *)

\* A line an earlier process stored on the given day.
StoredLine(event, day, id) ==
  event @@ [id |-> id, timestamp |-> day, file |-> PartitionPath(day)]

\* The log directory the first process finds: empty, or holding a partition
\* of yesterday, a partition older than the default retention, or both.
OldDay == 0 - DefaultMaxDays
OldLine ==
  StoredLine([eventType |-> "permission_request", userId |-> "ou_A", userName |-> "Ada",
              success |-> TRUE], OldDay, 1)
LogDirs ==
  LET yesterday(id) ==
        StoredLine([eventType |-> "permission_denied", userId |-> "ou_B",
                    userName |-> "Bob", success |-> FALSE], 0, id)
  IN {<<>>, <<OldLine>>, <<yesterday(1)>>, <<OldLine, yesterday(2)>>}

\* The values of config.maxDays: absent, 0, one day, more than any age.
MaxDaysInputs ==
  {NoMaxDays, MaxDaysOf(0), MaxDaysOf(1), MaxDaysOf(DefaultMaxDays + DefaultMaxDays)}

\* The events written in a run of SpecAudit.
AuditWrites == {event \in AuditInputs : event.userId = "ou_A"}

\* The options the reading operations are called with next to the writes.
NoOptions == [x \in {} |-> x]
ReadOptions == {NoOptions, [userId |-> "ou_A", limit |-> 1]}

InitAudit ==
  /\ identityMap = NoRegistry
  /\ pendingRequests = <<>>
  /\ nextId = 0
  /\ inflight = [c \in 1..MaxCalls |-> Idle]
  /\ last = NoOutcome
  /\ resolved = {}
  /\ auditLog \in LogDirs
  /\ logger = NoLogger
  /\ fw = NoWatcher
  /\ cfg = NoConfig
  /\ probe = [fn |-> "none"]
  /\ authConfig = DefaultConfig

NextAudit ==
  \/ \E config \in MaxDaysInputs, today \in 1..MaxDay : AuditLoggerNew(config, today)
  \/ \E event \in AuditWrites, timestamp \in 1..MaxDay, today \in 1..MaxDay,
        writeOk \in BOOLEAN :
          AuditLoggerLog(event, timestamp, today, writeOk)
  \/ \E options \in ReadOptions : AuditLoggerQuery(options)
  \/ \E options \in ReadOptions : AuditLoggerExportToCSV(options)
  \/ \E options \in ReadOptions : AuditLoggerGetStats(options)

SpecAudit == InitAudit /\ [][NextAudit]_vars

----------------------------------------------------------------------------
(* The reading operations of the audit logger on arbitrary directories *)

\* The directories: up to MaxLines lines, appended in any order to the
\* partitions of the two days.
QueryDays == {1, 2}
QueryLines ==
  {StoredLine(event, day, 0) :
     event \in AuditInputs, day \in QueryDays}
Corpora == UNION {[1..n -> QueryLines] : n \in 0..MaxLines}

\* The options of query: every limit with every filter, and two filters at once.
Filters ==
  {NoOptions, [startDate |-> 2], [endDate |-> 1], [userId |-> "ou_A"],
   [eventType |-> "permission_request"],
   [userId |-> "ou_A", eventType |-> "permission_request"],
   [startDate |-> 1, endDate |-> 1, userId |-> "ou_B"]}
Limits == {NoOptions} \cup {[limit |-> n] : n \in 0..2}
QueryOptions == {f @@ l : f \in Filters, l \in Limits}

InitAuditQuery ==
  /\ identityMap = NoRegistry
  /\ pendingRequests = <<>>
  /\ nextId = 0
  /\ inflight = [c \in 1..MaxCalls |-> Idle]
  /\ last = NoOutcome
  /\ resolved = {}
  /\ auditLog \in Corpora
  /\ logger = NewLogger
  /\ fw = NoWatcher
  /\ cfg = NoConfig
  /\ probe = [fn |-> "none"]
  /\ authConfig = DefaultConfig

NextAuditQuery ==
  \/ \E options \in QueryOptions : AuditLoggerQuery(options)
  \/ \E options \in Filters : AuditLoggerExportToCSV(options)
  \/ \E options \in Filters : AuditLoggerGetStats(options)

SpecAuditQuery == InitAuditQuery /\ [][NextAuditQuery]_vars

----------------------------------------------------------------------------
(* The file watcher on its own *)

InitWatcher ==
  /\ identityMap = NoRegistry
  /\ pendingRequests = <<>>
  /\ nextId = 0
  /\ inflight = [c \in 1..MaxCalls |-> Idle]
  /\ last = NoOutcome
  /\ resolved = {}
  /\ auditLog = <<>>
  /\ logger = NoLogger
  /\ \E debounceMs \in 1..MaxDebounce : fw = NewWatcher(debounceMs, {"map.json"})
  /\ cfg = NoConfig
  /\ probe = [fn |-> "none"]
  /\ authConfig = DefaultConfig

NextWatcher ==
  \/ \E filePath \in Paths, callback \in Callbacks, watchOk \in BOOLEAN :
       Watch(filePath, callback, watchOk)
  \/ \E filePath \in Paths : Unwatch(filePath)
  \/ UnwatchAll
  \/ \E watcher \in fw.handles : Change(watcher)
  \/ Tick
  \/ \E timer \in fw.timers : Fire(timer)
  \/ \E filePath \in Paths : FileRemoved(filePath)
  \/ \E filePath \in Paths : FileCreated(filePath)

SpecWatcher == InitWatcher /\ [][NextWatcher]_vars

----------------------------------------------------------------------------
(* Provisioning of dynamic agents on its own *)

\* The configurations provisioning starts from: empty, the main agent only,
\* and an agent of the name Ada that no identity is bound to.
OrphanConfig ==
  [agents |-> <<MainAgent, [id |-> FeishuId(Ada), workspace |-> Workspace(FeishuId(Ada)),
                            agentDir |-> AgentDir(FeishuId(Ada))]>>,
   bindings |-> <<>>]
InitialConfigs == {NoConfig, [agents |-> <<MainAgent>>, bindings |-> <<>>], OrphanConfig}

\* The inputs of provisioning: two senders, no ceiling or a ceiling up to
\* MaxAgents, no registry path or a registry, and the model policies.
Senders == {"ou_A", "ou_M"}
Ceilings == {EmptyMap} \cup {[maxAgents |-> n] : n \in 1..MaxAgents}
\* A registry with per-user models: an active user with a model and a prompt,
\* and an inactive one with a model whose name differs from the first by a
\* character the sanitising removes.
RegModels ==
  Registry(<<[id |-> "ou_A", user |-> [name |-> Ada, level |-> "L2", status |-> "active",
                                       model |-> "m1", systemPrompt |-> "p1"]],
             [id |-> "ou_M", user |-> [name |-> <<"Ada", "!">>, level |-> "L3",
                                       status |-> "inactive", model |-> "m2"]]>>)
AgentFiles ==
  {NoPath, [state |-> "malformed", doc |-> NoRegistry], [state |-> "ok", doc |-> RegShared],
   [state |-> "ok", doc |-> RegModels]}
ModelPolicies ==
  {[mode |-> "unified", defaultModel |-> "m0"], [mode |-> "assigned", defaultModel |-> "m0"],
   [mode |-> "assigned", defaultModel |-> ""]}

InitAgents ==
  /\ identityMap = NoRegistry
  /\ pendingRequests = <<>>
  /\ nextId = 0
  /\ inflight = [c \in 1..MaxCalls |-> Idle]
  /\ last = NoOutcome
  /\ resolved = {}
  /\ auditLog = <<>>
  /\ logger = NoLogger
  /\ fw = NoWatcher
  /\ cfg \in InitialConfigs
  /\ probe = [fn |-> "none"]
  /\ authConfig = DefaultConfig

NextAgents ==
  \E senderOpenId \in Senders, dynamicCfg \in Ceilings, file \in AgentFiles,
     policy \in ModelPolicies, writeOk \in BOOLEAN :
       MaybeCreateDynamicAgent(senderOpenId, dynamicCfg, file, policy.mode,
                               policy.defaultModel, writeOk)

SpecAgents == InitAgents /\ [][NextAgents]_vars

----------------------------------------------------------------------------
(* Loading the registry file and looking identities up in what it held *)

\* A file that parses as YAML but holds no verified_users key: yaml.load
\* returns the document and loadIdentityMap casts it to IdentityMap unchecked.
PartialDoc == [loaded |-> TRUE, pending_verifications |-> <<>>]

LoadableFiles == FileContents \cup {[state |-> "ok", doc |-> PartialDoc]}

\* identityMap.verified_users[openId] on a document whose verified_users is
\* undefined raises a TypeError.
ReadsUndefined(registry) ==
  registry # NoRegistry /\ "verified_users" \notin DOMAIN registry

InitLoad ==
  /\ \E file \in LoadableFiles : identityMap = loadIdentityMap(file)
  /\ pendingRequests = <<>>
  /\ nextId = 0
  /\ inflight = [c \in 1..MaxCalls |-> Idle]
  /\ last = NoOutcome
  /\ resolved = {}
  /\ auditLog = <<>>
  /\ logger = NoLogger
  /\ fw = NoWatcher
  /\ cfg = NoConfig
  /\ probe = [fn |-> "none", threw |-> FALSE]
  /\ authConfig = DefaultConfig

\* CentralAuthManager.reloadIdentityMap() when the file holds the given contents
LoadFrom(file) ==
  /\ identityMap' = loadIdentityMap(file)
  /\ probe' = [fn |-> "loadIdentityMap", file |-> file.state, threw |-> FALSE]
  /\ UNCHANGED <<pendingRequests, nextId, inflight, last, resolved, auditLog, logger, fw, cfg, authConfig>>

\* CentralAuthManager.getUserLevel(openId)
CallGetUserLevel(openId) ==
  /\ probe' = IF ReadsUndefined(identityMap)
              THEN [fn |-> "getUserLevel", openId |-> openId, threw |-> TRUE]
              ELSE [fn |-> "getUserLevel", openId |-> openId, threw |-> FALSE,
                    result |-> getUserLevel(identityMap, openId)]
  /\ UNCHANGED <<identityMap, pendingRequests, nextId, inflight, last, resolved, auditLog, logger, fw, cfg, authConfig>>

\* CentralAuthManager.getUser(openId)
CallGetUser(openId) ==
  /\ probe' = IF ReadsUndefined(identityMap)
              THEN [fn |-> "getUserInfo", openId |-> openId, threw |-> TRUE]
              ELSE [fn |-> "getUserInfo", openId |-> openId, threw |-> FALSE,
                    result |-> getUserInfo(identityMap, openId)]
  /\ UNCHANGED <<identityMap, pendingRequests, nextId, inflight, last, resolved, auditLog, logger, fw, cfg, authConfig>>

\* CentralAuthManager.isNewUser(openId)
CallIsNewUser(openId) ==
  /\ probe' = IF ReadsUndefined(identityMap)
              THEN [fn |-> "isNewUser", openId |-> openId, threw |-> TRUE]
              ELSE [fn |-> "isNewUser", openId |-> openId, threw |-> FALSE,
                    result |-> isNewUser(identityMap, openId)]
  /\ UNCHANGED <<identityMap, pendingRequests, nextId, inflight, last, resolved, auditLog, logger, fw, cfg, authConfig>>

\* handleIncomingMessage up to its first return or await: with a claim it
\* calls handleIdentityClaim, without one getUserLevel, and both read
\* identityMap.verified_users[openId] first.
CallHandleIncomingMessage(openId, message, isGroup) ==
  /\ probe' = IF ReadsUndefined(identityMap)
              THEN [fn |-> "handleIncomingMessage", openId |-> openId, message |-> message,
                    isGroup |-> isGroup, threw |-> TRUE]
              ELSE [fn |-> "handleIncomingMessage", openId |-> openId, message |-> message,
                    isGroup |-> isGroup, threw |-> FALSE,
                    result |-> Decide(identityMap, openId, message, isGroup).out]
  /\ UNCHANGED <<identityMap, pendingRequests, nextId, inflight, last, resolved, auditLog, logger, fw, cfg, authConfig>>

NextLoad ==
  \/ \E file \in LoadableFiles : LoadFrom(file)
  \/ \E openId \in Ids : CallGetUserLevel(openId)
  \/ \E openId \in Ids : CallGetUser(openId)
  \/ \E openId \in Ids : CallIsNewUser(openId)
  \/ \E openId \in Ids, message \in Messages, isGroup \in BOOLEAN :
       CallHandleIncomingMessage(openId, message, isGroup)

SpecLoad == InitLoad /\ [][NextLoad]_vars

----------------------------------------------------------------------------
(* getStats on directories small and large *)

\* A directory that holds more events than getStats asks query for: a
\* hundred and one daily partitions of a hundred events each.
LinesPerDay == 100
BusyDays == 101
BusyLog ==
  [i \in 1..(BusyDays * LinesPerDay) |->
     StoredLine([eventType |-> "permission_request", userId |-> "ou_A", userName |-> "Ada",
                 success |-> TRUE], ((i - 1) \div LinesPerDay) + 1, i)]

\* getStats accepts a date range only.
StatsOptions == {NoOptions, [startDate |-> 2], [endDate |-> 1], [startDate |-> 1, endDate |-> 2]}

InitAuditStats ==
  /\ identityMap = NoRegistry
  /\ pendingRequests = <<>>
  /\ nextId = 0
  /\ inflight = [c \in 1..MaxCalls |-> Idle]
  /\ last = NoOutcome
  /\ resolved = {}
  /\ auditLog \in Corpora \cup {BusyLog}
  /\ logger = NewLogger
  /\ fw = NoWatcher
  /\ cfg = NoConfig
  /\ probe = [fn |-> "none"]
  /\ authConfig = DefaultConfig

NextAuditStats == \E options \in StatsOptions : AuditLoggerGetStats(options)

SpecAuditStats == InitAuditStats /\ [][NextAuditStats]_vars

----------------------------------------------------------------------------
(* Classification of messages on arbitrary texts *)

\* Texts of up to MaxTokens words: a keyword of every rule, second keywords
\* of the first two rules, and a word no rule knows.
Words == {"git", "pull", "docker", "image", "rm", "rule", "email",
          "x_xieru_wenjian_x", "x_duqu_wenjian_x", "hello"}
Texts == UNION {[1..n -> Words] : n \in 0..MaxTokens}

InitClassify ==
  /\ identityMap = NoRegistry
  /\ pendingRequests = <<>>
  /\ nextId = 0
  /\ inflight = [c \in 1..MaxCalls |-> Idle]
  /\ last = NoOutcome
  /\ resolved = {}
  /\ auditLog = <<>>
  /\ logger = NoLogger
  /\ fw = NoWatcher
  /\ cfg = NoConfig
  /\ probe = [fn |-> "none"]
  /\ authConfig = DefaultConfig

\* detectOperationType(message)
ProbeDetectOperationType(message) ==
  /\ probe' = [fn |-> "detectOperationType", message |-> message,
               result |-> detectOperationType(message)]
  /\ UNCHANGED <<identityMap, pendingRequests, nextId, inflight, last, resolved, auditLog, logger, fw, cfg, authConfig>>

NextClassify == \E message \in Texts : ProbeDetectOperationType(message)

SpecClassify == InitClassify /\ [][NextClassify]_vars

----------------------------------------------------------------------------
(* Identity claims under either setting of enableAutoConfirm *)

\* The settings a manager can be built with: enableAutoConfirm left out, or
\* set to true or to false.
SuppliedConfigs == {EmptyMap} \cup {[enableAutoConfirm |-> b] : b \in BOOLEAN}

ClaimMessages == {message \in Messages : extractIdentityClaim(message) # NoClaim}

InitConfig ==
  /\ identityMap \in {loadIdentityMap(f) : f \in FileContents}
  /\ pendingRequests = <<>>
  /\ nextId = 0
  /\ inflight = [c \in 1..MaxCalls |-> Idle]
  /\ last = NoOutcome
  /\ resolved = {}
  /\ auditLog = <<>>
  /\ logger = NoLogger
  /\ fw = NoWatcher
  /\ cfg = NoConfig
  /\ probe = [fn |-> "none"]
  /\ authConfig \in {CentralAuthManagerConfig(config) : config \in SuppliedConfigs}

NextConfig ==
  \/ \E openId \in Ids, message \in ClaimMessages, isGroup \in BOOLEAN :
       /\ Admit(openId, message, isGroup)
       /\ HandleIncomingMessage(openId, message, isGroup)
  \/ \E c \in 1..MaxCalls : ResumeIdentityClaim(c)

SpecConfig == InitConfig /\ [][NextConfig]_vars

----------------------------------------------------------------------------
(* Properties *)

\* The entries of the current registry stored under openId.
EntriesOf(openId) ==
  {i \in 1..Len(identityMap.verified_users) : identityMap.verified_users[i].id = openId}

\* C1: getUserLevel returns L0 when the registry is absent, the id is not a
\* key of verified_users or the matched user is not active; in every other
\* case it returns the level stored for that user.
C1_GetUserLevel ==
  probe.fn = "getUserLevel" =>
    /\ ~identityMap.loaded => probe.result = "L0"
    /\ EntriesOf(probe.openId) = {} => probe.result = "L0"
    /\ \A i \in EntriesOf(probe.openId) :
         IF identityMap.verified_users[i].user.status = "active"
         THEN probe.result = identityMap.verified_users[i].user.level
         ELSE probe.result = "L0"

\* A deactivated user with a stored level above L0 was looked up.
C1_Witness ==
  /\ probe.fn = "getUserLevel"
  /\ probe.result = "L0"
  /\ \E i \in EntriesOf(probe.openId) :
       /\ identityMap.verified_users[i].user.status = "inactive"
       /\ identityMap.verified_users[i].user.level = "L2"

DeniedSensitive(call) ==
  /\ isSensitiveOperation(detectOperationType(call.message))
  /\ ~checkPermission(call.level, detectOperationType(call.message), FALSE, FALSE)

\* The call was escalated as a permission request and the tracker holds the
\* request under the returned id.
EscalatedAsPermissionRequest ==
  /\ last.result.shouldProcess = FALSE
  /\ last.result.forwardToMaster = TRUE
  /\ last.result.reply =
       getPermissionDeniedMessage(last.call.level, detectOperationType(last.call.message))
  /\ last.result.requestId.prefix = "perm"
  /\ last.result.requestId \in DOMAIN pendingRequests
  /\ LET request == pendingRequests[last.result.requestId]
     IN /\ request.requestId = last.result.requestId
        /\ request.openId = last.call.openId
        /\ request.userLevel = last.call.level
        /\ request.operation = detectOperationType(last.call.message)
        /\ request.originalMessage = last.call.message

\* The step that returns an escalated permission request adds exactly one
\* entry to the tracker, under a new id, and alters no other entry.
OneNewRequest ==
  \A c \in 1..MaxCalls :
    ResumePermissionRequest(c) =>
      /\ last'.result.requestId \notin DOMAIN pendingRequests
      /\ DOMAIN pendingRequests' = DOMAIN pendingRequests \cup {last'.result.requestId}
      /\ \A r \in DOMAIN pendingRequests : pendingRequests'[r] = pendingRequests[r]

\* C2, as stated: every sensitive operation the Gatekeeper denies to an L2
\* or L3 sender, in a direct chat or in a group, returns the escalation outcome
\* and leaves exactly one new request in the tracker.
C2_Original ==
  /\ [](last.op = "message" /\ last.call.level \in {"L2", "L3"} /\ DeniedSensitive(last.call)
          => EscalatedAsPermissionRequest)
  /\ [][OneNewRequest]_vars

\* C2, amended: the same for every message that carries no identity claim.
C2_DeniedSensitiveEscalates ==
  /\ [](last.op = "message" /\ last.call.level \in {"L2", "L3"} /\ DeniedSensitive(last.call)
          /\ extractIdentityClaim(last.call.message) = NoClaim
          => EscalatedAsPermissionRequest)
  /\ [][OneNewRequest]_vars

\* An L3 sender's denied sensitive message in a group has returned.
C2_Witness ==
  /\ last.op = "message"
  /\ last.call.level = "L3"
  /\ last.call.isGroup
  /\ DeniedSensitive(last.call)
  /\ extractIdentityClaim(last.call.message) = NoClaim
  /\ last.result.requestId \in DOMAIN pendingRequests

ClaimsAdminName(call) ==
  \E k \in 1..Len(call.nameHolders) : call.nameHolders[k] = "L1"

C5_ResolveTwice ==
  [][\A n \in 1..MaxRequests, approved \in BOOLEAN :
       HandlePermissionApproval(PermId(n), approved) =>
         IF PermId(n) \in resolved
         THEN /\ last'.success = FALSE
              /\ last'.request = NoRequest
              /\ UNCHANGED <<identityMap, pendingRequests, nextId, inflight, resolved, auditLog, logger, fw, cfg, authConfig>>
         ELSE PermId(n) \in DOMAIN pendingRequests =>
                /\ last'.success = TRUE
                /\ last'.request = pendingRequests[PermId(n)]
                /\ PermId(n) \notin DOMAIN pendingRequests'
                /\ Cardinality(DOMAIN pendingRequests') = Cardinality(DOMAIN pendingRequests) - 1
    ]_vars

\* A request that had been resolved was resolved again.
C5_Witness ==
  /\ last.op = "approval"
  /\ last.success = FALSE
  /\ last.requestId \in resolved

\* C6: with calls in flight, at most one resolve of a request id returns
\* success, and a resolve neither removes nor alters an entry stored under
\* another id.
C6_SingleWinner ==
  [][\A n \in 1..MaxConcRequests, approved \in BOOLEAN :
       HandlePermissionApproval(PermId(n), approved) =>
         /\ last'.success => PermId(n) \notin resolved
         /\ \A other \in (DOMAIN pendingRequests) \ {PermId(n)} :
              /\ other \in DOMAIN pendingRequests'
              /\ pendingRequests'[other] = pendingRequests[other]
    ]_vars

\* A second resolve lost while a call was suspended and another request was
\* pending.
C6_Witness ==
  /\ last.op = "approval"
  /\ last.success = FALSE
  /\ last.requestId \in resolved
  /\ Busy # {}
  /\ DOMAIN pendingRequests # {}

\* C7: the branch that creates a pending entity appends exactly one
\* AuditEvent, identity_claim or permission_request, before it returns.
C7_Original ==
  [][\A c \in 1..MaxCalls :
       /\ ResumeIdentityClaim(c) =>
            /\ Len(auditLog') = Len(auditLog) + 1
            /\ auditLog'[Len(auditLog')].eventType = "identity_claim"
       /\ ResumePermissionRequest(c) =>
            /\ Len(auditLog') = Len(auditLog) + 1
            /\ auditLog'[Len(auditLog')].eventType = "permission_request"
    ]_vars

\* C8: a successful resolve appends exactly one terminal audit record,
\* permission_approved or permission_denied; a failed resolve appends none.
C8_Original ==
  [][\A n \in 1..MaxRequests, approved \in BOOLEAN :
       HandlePermissionApproval(PermId(n), approved) =>
         IF PermId(n) \in DOMAIN pendingRequests
         THEN /\ Len(auditLog') = Len(auditLog) + 1
              /\ auditLog'[Len(auditLog')].eventType =
                   IF approved THEN "permission_approved" ELSE "permission_denied"
         ELSE auditLog' = auditLog
    ]_vars

\* C9: with no registry loaded, no call returns shouldProcess=true.
C9_Original ==
  last.op = "message" /\ ~last.call.hasRegistry => last.result.shouldProcess = FALSE

\* The registry without the entry of openId.
WithoutUser(registry, openId) ==
  [registry EXCEPT !.verified_users =
     SelectSeq(registry.verified_users, LAMBDA e : e.id # openId)]

\* C10: for an identity that is deactivated in the registry, every message
\* has the same outcome as under the registry without that identity.
C10_Original ==
  \A openId \in Ids, message \in Messages, isGroup \in BOOLEAN :
    identityMap.loaded /\ Lookup(identityMap, openId).status = "inactive"
      => Decide(identityMap, openId, message, isGroup).out
           = Decide(WithoutUser(identityMap, openId), openId, message, isGroup).out

\* C11, as stated: a message that originates in a group and is classified as
\* a sensitive operation never returns shouldProcess=true, for every sender
\* level and also when the Gatekeeper permits the operation.
C11_Original ==
  last.op = "message" /\ last.call.isGroup
    /\ isSensitiveOperation(detectOperationType(last.call.message))
    => last.result.shouldProcess = FALSE

\* C11, amended: the same for every message that carries no identity claim;
\* when the Gatekeeper permits the operation the reply asks for a direct chat.
C11_GroupContainment ==
  last.op = "message" /\ last.call.isGroup
    /\ isSensitiveOperation(detectOperationType(last.call.message))
    /\ extractIdentityClaim(last.call.message) = NoClaim
    => /\ last.result.shouldProcess = FALSE
       /\ checkPermission(last.call.level, detectOperationType(last.call.message), FALSE, FALSE)
            => /\ last.result.reply = NotInGroup
               /\ last.result.forwardToMaster = FALSE
               /\ last.result.requestId = NoRequestId

\* An L1 sender's sensitive message in a group, which the Gatekeeper permits,
\* has returned.
C11_Witness ==
  /\ last.op = "message"
  /\ last.call.isGroup
  /\ last.call.level = "L1"
  /\ detectOperationType(last.call.message) = "docker"
  /\ extractIdentityClaim(last.call.message) = NoClaim
  /\ last.result.reply = NotInGroup

C13_Original ==
  last.op = "message" /\ last.call.hasRegistry /\ ~last.call.hasEntry
    /\ extractIdentityClaim(last.call.message) # NoClaim
    /\ (last.call.nameHolders = <<>> \/ last.call.nameHolders = <<"L1">>)
    => /\ last.result.shouldProcess = FALSE
       /\ last.result.forwardToMaster = TRUE
       /\ last.result.requestId.prefix = "verify"
       /\ \E k \in 1..Len(identityMap.pending_verifications) :
            LET v == identityMap.pending_verifications[k]
            IN /\ v.request_id = last.result.requestId
               /\ v.author_id = last.call.openId
               /\ v.claimed_name = extractIdentityClaim(last.call.message)
               /\ v.status = "waiting"

\* C14, as stated: when an unbound identity claims the name of an active user
\* whose level is not L1, handleIdentityClaim returns autoConfirmed=true with
\* such a user and the identity-change reply, and handleIncomingMessage
\* returns shouldProcess=true with that reply and creates no pending entity.
C14_Original ==
  last.op = "message" /\ last.call.hasRegistry /\ ~last.call.hasEntry
    /\ (\E k \in 1..Len(last.call.nameHolders) : last.call.nameHolders[k] # "L1")
    => /\ last.call.claimResult.autoConfirmed = TRUE
       /\ last.result.shouldProcess = TRUE

\* C14, amended: the same when the first active user that carries the claimed
\* name, in registry order, has a level other than L1; the user returned is
\* that first user.
C14_AutoConfirmByName ==
  /\ [](last.op = "message" /\ last.call.hasRegistry /\ ~last.call.hasEntry
          /\ last.call.nameHolders # <<>> /\ Head(last.call.nameHolders) # "L1"
          => /\ last.call.claimResult.autoConfirmed = TRUE
             /\ last.call.claimResult.existingUser.name = extractIdentityClaim(last.call.message)
             /\ last.call.claimResult.existingUser.status = "active"
             /\ last.call.claimResult.existingUser.level = Head(last.call.nameHolders)
             /\ last.call.claimResult.message.kind = "id_change_detected"
             /\ last.result.shouldProcess = TRUE
             /\ last.result.reply = last.call.claimResult.message
             /\ last.result.forwardToMaster = FALSE
             /\ last.result.requestId = NoRequestId)
  /\ [][last' # last /\ last'.op = "message" /\ ~last'.call.hasEntry
          /\ last'.call.nameHolders # <<>> /\ Head(last'.call.nameHolders) # "L1"
          => /\ pendingRequests' = pendingRequests
             /\ nextId' = nextId
             /\ inflight' = inflight]_vars

\* An unbound identity claimed the name of an active L2 user and was
\* confirmed.
C14_Witness ==
  /\ last.op = "message"
  /\ ~last.call.hasEntry
  /\ last.call.nameHolders = <<"L2">>
  /\ last.result.shouldProcess = TRUE
  /\ last.result.reply.kind = "id_change_detected"

\* C15: the Gatekeeper allows L1 every operation and allows L0 no operation
\* except query, for every combination of the department flags.
C15_AdminAllUnregisteredQueryOnly ==
  probe.fn = "checkPermission" =>
    /\ probe.level = "L1" => probe.result = TRUE
    /\ probe.level = "L0" => (probe.result <=> probe.operation = "query")

\* An L0 caller asked for read_file on a resource of its own department and
\* was denied.
C15_Witness ==
  /\ probe.fn = "checkPermission"
  /\ probe.level = "L0"
  /\ probe.operation = "read_file"
  /\ probe.isDepartmentResource /\ probe.isOwnDepartment
  /\ probe.result = FALSE

\* C16: the department overrides only add permission: whenever the base
\* matrix allows (operation, level), checkPermission allows it for every
\* value of the flags.
C16_OverridesOnlyAdd ==
  probe.fn = "checkPermission" /\ PERMISSION_MATRIX[probe.operation][probe.level]
    => probe.result = TRUE

\* An L2 caller read a file of another department, which the matrix allows.
C16_Witness ==
  /\ probe.fn = "checkPermission"
  /\ probe.level = "L2"
  /\ probe.operation = "read_file"
  /\ probe.isDepartmentResource /\ ~probe.isOwnDepartment
  /\ probe.result = TRUE

\* The three (level, operation) pairs of the department overrides.
OverridePairs == {<<"L3", "read_file">>, <<"L2", "modify_rules">>, <<"L2", "write_file">>}

\* C17: checkPermission differs from the base matrix exactly for the three
\* override pairs with isOwnDepartment set, where it allows; in every other
\* case it returns the matrix entry.
C17_ThreeOverrides ==
  probe.fn = "checkPermission" =>
    IF probe.isOwnDepartment /\ <<probe.level, probe.operation>> \in OverridePairs
    THEN probe.result = TRUE /\ PERMISSION_MATRIX[probe.operation][probe.level] = FALSE
    ELSE probe.result = PERMISSION_MATRIX[probe.operation][probe.level]

\* An L2 caller was allowed write_file in its own department.
C17_Witness ==
  /\ probe.fn = "checkPermission"
  /\ probe.level = "L2"
  /\ probe.operation = "write_file"
  /\ probe.isOwnDepartment /\ ~probe.isDepartmentResource
  /\ probe.result = TRUE

\* C18: a reload while calls are suspended leaves them as they are, and every
\* registry-derived value of a call that resumes (the claim resolution, the
\* level, the denial reply, the name found in the registry) is the one given
\* by the registry the call read when it started, whatever registry is
\* loaded since.
C18_OneSnapshotPerCall ==
  [][/\ ReloadIdentityMap => inflight' = inflight
     /\ \A c \in 1..MaxCalls :
          LET snapshot == inflight[c].snapshot
              openId == inflight[c].call.openId
              message == inflight[c].call.message
              userLevel == getUserLevel(snapshot, openId)
              operationType == detectOperationType(message)
              claim == handleIdentityClaim(snapshot, openId, extractIdentityClaim(message))
          IN /\ ResumePermissionRequest(c) =>
                  LET request == pendingRequests'[last'.result.requestId]
                  IN /\ request.userLevel = userLevel
                     /\ request.userName \in DisplayNames(RegistryName(snapshot, openId), openId)
                     /\ ~checkPermission(userLevel, operationType, FALSE, FALSE)
                     /\ last'.result.reply = getPermissionDeniedMessage(userLevel, operationType)
             /\ ResumeIdentityClaim(c) =>
                  /\ snapshot.loaded
                  /\ ~claim.autoConfirmed
                  /\ last'.result.reply = claim.message
    ]_vars

\* A call resumed after the registry was replaced by one that gives its
\* sender another level, and stored the level of the registry it had read.
C18_Witness ==
  /\ last.op = "message"
  /\ last.reloaded
  /\ last.result.requestId \in DOMAIN pendingRequests
  /\ pendingRequests[last.result.requestId].userLevel = "L2"
  /\ getUserLevel(identityMap, last.call.openId) = "L3"

C20_Original ==
  probe.fn = "log" =>
    /\ probe.threw = FALSE
    /\ probe.result.id > 0
    /\ probe.result.timestamp > 0
    /\ probe.result.eventType = probe.event.eventType


\* The lines of the directory that pass the filters supplied in options.
Satisfying(options) ==
  {i \in 1..Len(auditLog) :
     /\ "startDate" \in DOMAIN options => auditLog[i].timestamp >= options.startDate
     /\ "endDate" \in DOMAIN options => auditLog[i].timestamp <= options.endDate
     /\ "userId" \in DOMAIN options => auditLog[i].userId = options.userId
     /\ "eventType" \in DOMAIN options => auditLog[i].eventType = options.eventType}

\* Line i comes before line j: in a partition of an earlier file name, or
\* earlier in the same partition.
ScannedBefore(i, j) ==
  \/ auditLog[i].file[2] < auditLog[j].file[2]
  \/ auditLog[i].file = auditLog[j].file /\ i < j

\* C21: query with limit N (100 when none is given) over M events that pass
\* the filters returns min(N, M) events: the first ones in the order of the
\* partition file names and, inside a partition, in the order they were
\* appended; every returned event passes every filter supplied.
C21_QueryFirstMatches ==
  probe.fn = "query" =>
    LET options == probe.options
        limit == IF "limit" \in DOMAIN options THEN options.limit ELSE DefaultLimit
        matching == Satisfying(options)
        rank(i) == Cardinality({j \in matching : ScannedBefore(j, i)}) + 1
    IN /\ Len(probe.result) =
            IF Cardinality(matching) > limit THEN limit ELSE Cardinality(matching)
       /\ \A k \in 1..Len(probe.result) :
            /\ \E i \in matching :
                 /\ rank(i) = k
                 /\ \A field \in DOMAIN probe.result[k] :
                      probe.result[k][field] = auditLog[i][field]
            /\ "startDate" \in DOMAIN options => probe.result[k].timestamp >= options.startDate
            /\ "endDate" \in DOMAIN options => probe.result[k].timestamp <= options.endDate
            /\ "userId" \in DOMAIN options => probe.result[k].userId = options.userId
            /\ "eventType" \in DOMAIN options => probe.result[k].eventType = options.eventType

\* A query with limit 1 on a directory whose second line lies in the earlier
\* partition: two events match, the one returned is the second line.
C21_Witness ==
  /\ probe.fn = "query"
  /\ probe.options = [limit |-> 1]
  /\ Len(auditLog) = 2
  /\ auditLog[1].file = PartitionPath(2)
  /\ auditLog[2].file = PartitionPath(1)
  /\ Len(probe.result) = 1
  /\ probe.result[1].userId = auditLog[2].userId

\* C22: constructing an AuditLogger with maxDays = 0 on a log directory that
\* holds partitions removes all of them.
C22_Original ==
  probe.fn = "new" /\ probe.config = MaxDaysOf(0) => auditLog = <<>>

\* C23: the sweep of the constructor removes a partition only if its age
\* exceeds maxDays (30 when not configured), so none when maxDays is larger
\* than every age; no step other than a construction removes a partition.
C23_SweepOnlyOld ==
  /\ [](probe.fn = "new" =>
          LET maxDays == IF probe.config.set THEN probe.config.value ELSE 30
              found == Partitions(auditLog) \cup probe.removed
          IN /\ \A file \in probe.removed : probe.today - Mtime(file) > maxDays
             /\ (\A file \in found : maxDays > probe.today - Mtime(file))
                  => Partitions(auditLog) = found)
  /\ [][(~ \E config \in MaxDaysInputs, today \in 1..MaxDay : AuditLoggerNew(config, today))
          => Partitions(auditLog) \subseteq Partitions(auditLog')]_vars

\* A construction that removed one partition and kept another.
C23_Witness ==
  /\ probe.fn = "new"
  /\ probe.removed # {}
  /\ auditLog # <<>>

\* C24: a log call made on day D' by a logger whose partition was that of
\* another day D appends its record to the partition of D'.
C24_PartitionFollowsDay ==
  probe.fn = "log" /\ ~probe.threw =>
    /\ auditLog # <<>>
    /\ auditLog[Len(auditLog)].file = PartitionPath(probe.today)
    /\ auditLog[Len(auditLog)].id = probe.result.id

\* A record written on day 2 by a logger that was on the partition of day 1.
C24_Witness ==
  /\ probe.fn = "log"
  /\ ~probe.threw
  /\ probe.was = 1
  /\ probe.today = 2

\* C25: the partitions are append-only.  In every step every partition keeps
\* its lines, unmodified and in order; a log call that returns adds exactly
\* one line, at the end of one partition; lines disappear only in a
\* construction, and then with their whole partition.
C25_AppendOnly ==
  [][LET files == Partitions(auditLog) \cup Partitions(auditLog')
         appended == {file \in files :
                        /\ Len(ReadLines(auditLog', file)) = Len(ReadLines(auditLog, file)) + 1
                        /\ SubSeq(ReadLines(auditLog', file), 1, Len(ReadLines(auditLog, file)))
                             = ReadLines(auditLog, file)}
         removed == {file \in files :
                       ReadLines(auditLog, file) # <<>> /\ ReadLines(auditLog', file) = <<>>}
         kept == {file \in files : ReadLines(auditLog', file) = ReadLines(auditLog, file)}
     IN /\ files = appended \cup removed \cup kept
        /\ Cardinality(appended) <= 1
        /\ removed # {} => probe'.fn = "new" /\ appended = {}
        /\ appended # {} => probe'.fn = "log"
        /\ (probe'.fn = "log" /\ ~probe'.threw /\ probe' # probe)
             => Cardinality(appended) = 1]_vars

\* A log call added a line behind the lines its partition already held.
C25_Witness ==
  /\ probe.fn = "log"
  /\ ~probe.threw
  /\ Len(ReadLines(auditLog, PartitionPath(probe.today))) >= 2

\* C26: the change notifications of one watched path that follow each other
\* within debounceMs end in exactly one invocation of the callback, debounceMs
\* after the last of them: while notifications wait for their callback exactly
\* one timer is armed for the path, due debounceMs after the last of them, and
\* the invocation covers all of them and leaves no timer of the path behind.
\* A path never has more than one timer armed.
C26_DebounceCoalesces ==
  fw # NoWatcher =>
    /\ \A path \in Paths : Cardinality({t \in fw.timers : t.filePath = path}) <= 1
    /\ \A path \in Paths :
         fw.unreported[path] > 0 =>
           \E t \in fw.timers :
             t.filePath = path /\ t.remaining = fw.debounceMs - fw.quiet[path]
    /\ fw.fired.op = "callback" =>
         /\ fw.fired.coalesced >= 1
         /\ fw.fired.quiet = fw.debounceMs
         /\ fw.unreported[fw.fired.filePath] = 0
         /\ \A t \in fw.timers : t.filePath # fw.fired.filePath

\* One invocation of the callback after two notifications.
C26_Witness ==
  /\ fw # NoWatcher
  /\ fw.fired.op = "callback"
  /\ fw.fired.coalesced >= 2

\* C27: watch on a path that does not exist registers no watcher and arms no
\* timer, and the callback is not invoked afterwards.
C27_WatchMissingFile ==
  (fw # NoWatcher /\ fw.lastCall.op = "watch" /\ ~fw.lastCall.existed) =>
    LET path == fw.lastCall.filePath
    IN /\ path \notin DOMAIN fw.watchers
       /\ path \notin DOMAIN fw.debounceTimers
       /\ \A h \in fw.handles : h.filePath # path
       /\ \A t \in fw.timers : t.filePath # path
       /\ ~(fw.fired.op = "callback" /\ fw.fired.filePath = path)

\* watch was called on a missing path while the other path has a timer armed.
C27_Witness ==
  /\ fw # NoWatcher
  /\ fw.lastCall.op = "watch"
  /\ ~fw.lastCall.existed
  /\ fw.lastCall.watchOk
  /\ fw.timers # {}

\* C28: watching a watched path again replaces the watch.  A path has at most
\* one open watcher, the one of the last watch call; the earlier one is
\* closed; a timer armed for a path and a callback invoked for it are those of
\* the last watch call, and at most one timer is armed.
C28_RewatchReplaces ==
  fw # NoWatcher =>
    /\ \A path \in Paths : Cardinality({h \in fw.handles : h.filePath = path}) <= 1
    /\ \A h \in fw.handles :
         /\ h.callback = fw.latest[h.filePath]
         /\ h.filePath \in DOMAIN fw.watchers
         /\ fw.watchers[h.filePath] = h.id
    /\ \A t1 \in fw.timers, t2 \in fw.timers :
         t1.filePath = t2.filePath => t1 = t2 /\ t1.callback = fw.latest[t1.filePath]
    /\ fw.fired.op = "callback" =>
         /\ fw.fired.callback = fw.latest[fw.fired.filePath]
         /\ \A t \in fw.timers : t.filePath # fw.fired.filePath

\* A watched path was watched again with cb2, and cb2 has been invoked.
C28_Witness ==
  /\ fw # NoWatcher
  /\ fw.lastCall.op = "watch"
  /\ fw.lastCall.watched
  /\ fw.lastCall.callback = "cb2"
  /\ fw.latest[fw.lastCall.filePath] = "cb2"
  /\ fw.fired.op = "callback"
  /\ fw.fired.filePath = fw.lastCall.filePath
  /\ fw.fired.callback = "cb2"

\* The bindings of an identity in a configuration.
BindingsOf(config, openId) ==
  {i \in 1..Len(config.bindings) : config.bindings[i].match.peer.id = openId}

\* C29: maybeCreateDynamicAgent is idempotent per identity.  A call that
\* follows a call for the same identity, with the same ceiling, on the
\* configuration that call returned, returns created = false and the
\* configuration it was given, creates no directory and writes no file; no
\* identity has two bindings and no agent id occurs twice.
C29_IdempotentPerIdentity ==
  /\ [](/\ \A openId \in Ids : Cardinality(BindingsOf(cfg, openId)) <= 1
        /\ \A i \in 1..Len(cfg.agents), j \in 1..Len(cfg.agents) :
             cfg.agents[i].id = cfg.agents[j].id => i = j)
  /\ [][(/\ probe.fn = "maybeCreateDynamicAgent"
         /\ ~probe.threw
         /\ probe'.fn = "maybeCreateDynamicAgent"
         /\ probe'.senderOpenId = probe.senderOpenId
         /\ probe'.dynamicCfg = probe.dynamicCfg)
          => /\ ~probe'.threw
             /\ ~probe'.result.created
             /\ probe'.result.updatedCfg = cfg
             /\ ~probe'.result.wrote
             /\ probe'.result.mkdirs = {}
             /\ cfg' = cfg]_vars

\* A call for an identity that was bound by an earlier call was declined.
C29_Witness ==
  /\ probe.fn = "maybeCreateDynamicAgent"
  /\ ~probe.threw
  /\ ~probe.result.created
  /\ probe.before # NoConfig
  /\ BindingsOf(probe.before, probe.senderOpenId) # {}
  /\ cfg = probe.before

\* C30: when an agent of the derived id exists and the identity has no
\* binding, the call adds the binding and nothing else, also at the ceiling.
C30_Original ==
  (/\ probe.fn = "maybeCreateDynamicAgent"
   /\ ~probe.threw
   /\ BindingsOf(probe.before, probe.senderOpenId) = {}
   /\ \E i \in 1..Len(probe.before.agents) :
        probe.before.agents[i].id = generateAgentId(probe.senderOpenId, probe.file))
    => /\ probe.result.updatedCfg.agents = probe.before.agents
       /\ probe.result.mkdirs = {}
       /\ probe.result.updatedCfg.bindings =
            Append(probe.before.bindings,
                   DmBinding(generateAgentId(probe.senderOpenId, probe.file),
                             probe.senderOpenId))

\* C31: a call made with a ceiling maxAgents leaves at most maxAgents feishu
\* agents when there were at most that many, so no sequence of calls under one
\* ceiling exceeds it; a call made at the ceiling returns created = false and
\* the configuration it was given, and does not throw.
C31_CeilingRespected ==
  (probe.fn = "maybeCreateDynamicAgent" /\ "maxAgents" \in DOMAIN probe.dynamicCfg) =>
    LET ceiling == probe.dynamicCfg.maxAgents
        Feishu(config) ==
          {i \in 1..Len(config.agents) : config.agents[i].id.prefix = "feishu-"}
    IN /\ Cardinality(Feishu(probe.before)) <= ceiling
            => Cardinality(Feishu(cfg)) <= ceiling
       /\ Cardinality(Feishu(probe.before)) >= ceiling
            => /\ ~probe.threw
               /\ ~probe.result.created
               /\ probe.result.updatedCfg = probe.before
               /\ cfg = probe.before

\* A sender without a binding was declined at the ceiling.
C31_Witness ==
  /\ probe.fn = "maybeCreateDynamicAgent"
  /\ "maxAgents" \in DOMAIN probe.dynamicCfg
  /\ ~probe.threw
  /\ ~probe.result.created
  /\ BindingsOf(probe.before, probe.senderOpenId) = {}
  /\ feishuAgentCount(probe.before) = probe.dynamicCfg.maxAgents

\* The model of an agent entry; "" when it has none.
ModelOf(agent) == IF "model" \in DOMAIN agent THEN agent.model ELSE ""

\* C32: the model of a newly created agent is the configured default under
\* the unified mode; under the assigned mode it is the registry's model of
\* the identity when the user is active and has one, and the configured
\* default otherwise, also without a registry path or a loadable registry.
C32_Original ==
  (/\ probe.fn = "maybeCreateDynamicAgent"
   /\ ~probe.threw
   /\ probe.result.created
   /\ probe.result.mkdirs # {})
    => LET agents == probe.result.updatedCfg.agents
           users == IF probe.file.state = "ok" THEN probe.file.doc.verified_users ELSE <<>>
           own == {i \in 1..Len(users) :
                     /\ users[i].id = probe.senderOpenId
                     /\ users[i].user.status = "active"
                     /\ "model" \in DOMAIN users[i].user}
       IN ModelOf(agents[Len(agents)]) =
            IF probe.mode = "unified" THEN probe.defaultModel
            ELSE IF own # {} THEN users[CHOOSE i \in own : TRUE].user.model
            ELSE probe.defaultModel

\* C33 (as stated): loading and the lookups are total -- whatever
\* loadIdentityMap returned, a document without verified_users included,
\* getUserLevel, getUserInfo, isNewUser and handleIncomingMessage return a
\* value and raise nothing.
C33_Original ==
  probe.fn \in {"loadIdentityMap", "getUserLevel", "getUserInfo", "isNewUser",
                "handleIncomingMessage"}
    => ~probe.threw

\* The sum of the counts of a histogram.
RECURSIVE HistogramTotal(_)
HistogramTotal(histogram) ==
  IF DOMAIN histogram = {} THEN 0
  ELSE LET key == CHOOSE k \in DOMAIN histogram : TRUE
       IN histogram[key] +
          HistogramTotal([k \in DOMAIN histogram \ {key} |-> histogram[k]])

\* C34 (as stated): getStats returns totalEvents equal to the number of
\* events that match its filters, a per-type and a per-user histogram that
\* each sum to totalEvents, and successRate equal to the successful events
\* over totalEvents, 0 when there are none.
C34_Original ==
  probe.fn = "getStats" =>
    LET matching == Satisfying(probe.options)
        successes == {i \in matching : auditLog[i].success}
    IN /\ probe.result.totalEvents = Cardinality(matching)
       /\ HistogramTotal(probe.result.eventsByType) = probe.result.totalEvents
       /\ HistogramTotal(probe.result.eventsByUser) = probe.result.totalEvents
       /\ probe.result.successRate =
            IF matching = {} THEN <<0, 1>>
            ELSE <<Cardinality(successes), probe.result.totalEvents>>

\* The rules whose keywords occur in the message.
MatchedRules(message) ==
  {rule \in {"git", "docker", "system", "modify_rules", "send_message", "write_file",
             "read_file"} :
     \E i \in 1..Len(message) : message[i] \in Keywords(rule)}

\* Rule a is tried before rule b.
TriedBefore(a, b) ==
  \/ a = "git" /\ b # "git"
  \/ a = "docker" /\ b \notin {"git", "docker"}
  \/ a = "system" /\ b \in {"modify_rules", "send_message", "write_file", "read_file"}
  \/ a = "modify_rules" /\ b \in {"send_message", "write_file", "read_file"}
  \/ a = "send_message" /\ b \in {"write_file", "read_file"}
  \/ a = "write_file" /\ b = "read_file"

\* C35: detectOperationType tries its rules in the order git, docker, system,
\* modify_rules, send_message, write_file, read_file and the first match
\* wins: the result is a matched rule that no other matched rule precedes,
\* and it is query when no rule matches.
C35_FirstRuleWins ==
  probe.fn = "detectOperationType" =>
    LET matched == MatchedRules(probe.message)
    IN IF matched = {} THEN probe.result = "query"
       ELSE /\ probe.result \in matched
            /\ \A other \in matched \ {probe.result} : TriedBefore(probe.result, other)

\* A message with keywords of two rules, the later rule's keyword first, is
\* classified as the earlier rule.
C35_Witness ==
  /\ probe.fn = "detectOperationType"
  /\ probe.message = <<"x_duqu_wenjian_x", "rule">>
  /\ probe.result = "modify_rules"

\* C36 (as stated): a message without an identity claim is passed on for
\* processing only if the Gatekeeper allows the classified operation at the
\* sender's level, whether or not the operation is sensitive.
C36_Original ==
  (/\ last.op = "message"
   /\ extractIdentityClaim(last.call.message) = NoClaim
   /\ last.result.shouldProcess)
    => checkPermission(last.call.level, detectOperationType(last.call.message), FALSE, FALSE)

\* C37 (as stated): provisioning keeps identities isolated -- no two
\* distinct identities are bound to the same agent id, also when two users
\* share a display name or their names sanitise to the same string.
C37_Original ==
  \A i, j \in 1..Len(cfg.bindings) :
    cfg.bindings[i].match.peer.id # cfg.bindings[j].match.peer.id
      => cfg.bindings[i].agentId # cfg.bindings[j].agentId

\* C38 (as stated): with enableAutoConfirm set to false no identity claim is
\* auto-confirmed -- a call with a claim on a loaded registry never returns
\* shouldProcess = true -- and every claim is escalated.
C38_Original ==
  (/\ ~authConfig.enableAutoConfirm
   /\ last.op = "message"
   /\ last.call.hasRegistry
   /\ extractIdentityClaim(last.call.message) # NoClaim)
    => /\ ~last.call.claimResult.autoConfirmed
       /\ ~last.result.shouldProcess
       /\ last.result.forwardToMaster

\* C39: after unwatch(path) or unwatchAll() the callback of the path is not
\* invoked until the path is watched anew, also when a debounce timer was
\* armed at the time of the call: every armed timer belongs to a path with an
\* open watcher, a callback runs only for a path with an open watcher, and
\* from a call of unwatch (unwatchAll) to the next call the path has (all
\* paths have) no open watcher and no armed timer and its callback does not run.
C39_StoppedStaysSilent ==
  /\ \A t \in fw.timers :
       /\ t.filePath \in DOMAIN fw.watchers
       /\ \E h \in fw.handles : h.filePath = t.filePath /\ h.id = fw.watchers[t.filePath]
  /\ fw.fired.op = "callback" => fw.fired.filePath \in DOMAIN fw.watchers
  /\ fw.lastCall.op = "unwatch" =>
       /\ fw.lastCall.filePath \notin DOMAIN fw.watchers
       /\ \A h \in fw.handles : h.filePath # fw.lastCall.filePath
       /\ \A t \in fw.timers : t.filePath # fw.lastCall.filePath
       /\ fw.fired.op = "callback" => fw.fired.filePath # fw.lastCall.filePath
  /\ fw.lastCall.op = "unwatchAll" =>
       /\ fw.watchers = EmptyMap
       /\ fw.handles = {}
       /\ fw.timers = {}
       /\ fw.fired = NoCall

\* unwatch was called while the timer of its path was armed and not yet due,
\* and the time at which that timer was due has passed.
C39_Witness ==
  /\ fw.lastCall.op = "unwatch"
  /\ fw.lastCall.pending
  /\ fw.lastCall.quiet < fw.debounceMs
  /\ fw.quiet[fw.lastCall.filePath] = fw.debounceMs

\* C40 (as stated): every record stored in the partition of day D has a
\* timestamp of day D, also when the day changes during the log call, and so
\* the timestamps of the events query returns are non-decreasing.
C40_Original ==
  /\ \A i \in 1..Len(auditLog) : auditLog[i].file = PartitionPath(auditLog[i].timestamp)
  /\ probe.fn = "query" =>
       \A i, j \in 1..Len(probe.result) :
         i < j => probe.result[i].timestamp <= probe.result[j].timestamp

====
